---- MODULE Spec2Model ----
(***************************************************************************)
(* Package Export Index of hcc-pf-mcp: exportScanner.ts, and the code     *)
(* around it.                                                              *)
(*                                                                         *)
(* The module models the export scanner as the program runs it: async      *)
(* calls of scanPackageExports / findExportSource that interleave at their *)
(* await points (the glob, every readFile), the module-level exportCache   *)
(* with its TTL, clearExportCache, and the clock read by Date.now().       *)
(* parseFileExports is modelled on a syntax tree of the source text.       *)
(*                                                                         *)
(* It also models getLocalModulesMap with its modulesCache, the tool       *)
(* getComponentSourceCode that calls both, cachedFetch, and the            *)
(* search_jira_issues handler of hcc-jira-mcp.  Each part has its own      *)
(* specification; the variables of the other parts stand still in it.      *)
(***************************************************************************)
EXTENDS Integers, Sequences, FiniteSets, TLC

VARIABLES
    now,          \* Date.now(), in milliseconds
    ticksLeft,    \* how many more times the clock advances (bounds the clock)
    fs,           \* the file system: root -> what the glob of <root>/src answers
    exportCache,  \* exportScanner.ts:27, Map<cacheKey, {expiresAt, result}>
    calls,        \* caller -> its call of scanPackageExports / findExportSource
    clearedExp,   \* history: root -> expiresAt of the entry the last clear removed
                  \*          while no call for the root has started since, else 0
    storedSince,  \* history: the roots a scan has stored an entry for since then
    nodeModules,  \* the installed packages: packageName -> what is on disk
    modulesCache, \* getLocalModulesMap.ts:4, Map<cacheKey, {expiresAt, modulesMap}>
    mcalls,       \* caller -> its call of getLocalModulesMap
    tools,        \* caller -> its call of the getComponentSourceCode tool
    fetchCache,   \* cachedFetch.ts:1, Map<cacheKey, value>
    fcalls,       \* caller -> its call of cachedFetch
    jcalls,       \* caller -> its call of the search_jira_issues handler
    parse,        \* the call of parseFileExports: its text and what it returned
    cli,          \* the start of the hcc-jira-mcp command line program
    heap,         \* the ExportScanResult objects: reference -> { exports, errors }
    refCache,     \* exportCache as the references it holds: key -> {expiresAt, result}
    holders,      \* caller -> the reference scanPackageExports returned to it
    storedAs      \* history: reference -> the value of the object when it was stored

clockVars   == <<now, ticksLeft>>
scannerVars == <<fs, exportCache, calls, clearedExp, storedSince>>
modulesVars == <<nodeModules, modulesCache, mcalls>>
toolVars    == <<tools>>
fetchVars   == <<fetchCache, fcalls>>
jiraVars    == <<jcalls>>
parserVars  == <<parse>>
cliVars     == <<cli>>
sharingVars == <<heap, refCache, holders, storedAs>>
otherVars   == <<parserVars, cliVars, sharingVars>>

vars == <<clockVars, scannerVars, modulesVars, toolVars, fetchVars, jiraVars, otherVars>>

\* the parts of the program that a specification of another part leaves
\* out: nothing is being parsed, the command line program is not started,
\* and no object is shared
OthersIdle ==
    /\ parse = <<>>
    /\ cli = <<>>
    /\ heap = <<>> /\ refCache = <<>> /\ holders = <<>> /\ storedAs = <<>>

----------------------------------------------------------------------------
(* Bounds of the model.                                                    *)

\* longest file listing the glob answers for a package
MaxFiles == 3
\* number of times the clock advances in a behaviour
MaxTicks == 2

\* the callers that may have a call in flight at the same time
Procs == {"p1", "p2"}

\* the package roots queried
Roots == {"/r1", "/r2"}

----------------------------------------------------------------------------
(* Program constants.                                                      *)

\* exportScanner.ts:28   const CACHE_TTL_MS = 5 * 60 * 1000
CACHE_TTL_MS == 5 * 60 * 1000

\* the clock advances by one millisecond or by one millisecond less than the
\* TTL, so that both sides of every expiry boundary are reached
TickSteps == {1, CACHE_TTL_MS - 1}

----------------------------------------------------------------------------
(* Syntax trees of source texts (what ts.createSourceFile returns).        *)

\* a declaration without an identifier name: an anonymous default function
\* or class, or a destructuring pattern in a variable declaration
NoName == ""

\* a declaration statement: kind is the SyntaxKind, modifiers the set of
\* modifier keywords, names the declared names in source order
DeclNode(kind, modifiers, names) ==
    [kind |-> kind, modifiers |-> modifiers, names |-> names,
     moduleSpecifier |-> FALSE, namedExports |-> FALSE,
     elements |-> <<>>, propertyNames |-> <<>>, children |-> <<>>]

\* an export declaration: export { a, b as c } [from 'm'] / export * from 'm'
\* elements are the external (post-alias) names, element.name.text, and
\* propertyNames the names before `as`, element.propertyName?.text, NoName
\* for an element without alias
AliasedExportNode(moduleSpecifier, propertyNames, elements) ==
    [kind |-> "ExportDeclaration", modifiers |-> {}, names |-> <<>>,
     moduleSpecifier |-> moduleSpecifier, namedExports |-> TRUE,
     elements |-> elements, propertyNames |-> propertyNames, children |-> <<>>]

\* an export declaration none of whose elements has an alias
ExportNode(moduleSpecifier, namedExports, elements) ==
    [kind |-> "ExportDeclaration", modifiers |-> {}, names |-> <<>>,
     moduleSpecifier |-> moduleSpecifier, namedExports |-> namedExports,
     elements |-> elements, propertyNames |-> [i \in 1..Len(elements) |-> NoName],
     children |-> <<>>]

\* a node that only contains other statements (namespace N { ... })
BlockNode(kind, modifiers, children) ==
    [kind |-> kind, modifiers |-> modifiers, names |-> <<>>,
     moduleSpecifier |-> FALSE, namedExports |-> FALSE,
     elements |-> <<>>, propertyNames |-> <<>>, children |-> children]

\* the SourceFile node of a text whose top-level statements are stmts
SourceFile(stmts) == BlockNode("SourceFile", {}, stmts)

----------------------------------------------------------------------------
(* parseFileExports, exportScanner.ts:123-262.                             *)

\* ExportInfo that records the directory of the file, not the file
ExportInfoInDirectory(name, filePath, kind, isDefault) ==
    [name |-> name, filePath |-> "/src", kind |-> kind, isDefault |-> isDefault]

ExportInfo(name, filePath, kind, isDefault) ==
    [name |-> name, filePath |-> filePath, kind |-> kind, isDefault |-> isDefault]

RECURSIVE Concat(_)
Concat(seqs) ==
    IF seqs = <<>> THEN <<>> ELSE Head(seqs) \o Concat(Tail(seqs))

\* the name of an element taken before its alias: export { X as Y } gives X
exportedNameBeforeAlias(node, i) ==
    IF node.propertyNames[i] # NoName THEN node.propertyNames[i] ELSE node.elements[i]

\* line 240: const exportedName = element.name.text
exportedName(node, i) == node.elements[i]

\* the records one node pushes itself, before its children are visited
NodeExports(filePath, node) ==
    LET exported  == "export" \in node.modifiers
        isDefault == "default" \in node.modifiers
        named     == SelectSeq(node.names, LAMBDA n : n # NoName)
    IN  CASE node.kind = "VariableStatement" /\ exported ->
               [i \in 1..Len(named) |->
                   ExportInfo(named[i], filePath, "variable", isDefault)]
          [] node.kind = "FunctionDeclaration" /\ exported ->
               [i \in 1..Len(named) |->
                   ExportInfo(named[i], filePath, "function", isDefault)]
          [] node.kind = "ClassDeclaration" /\ exported ->
               [i \in 1..Len(named) |->
                   ExportInfo(named[i], filePath, "class", isDefault)]
          [] node.kind = "InterfaceDeclaration" /\ exported ->
               [i \in 1..Len(node.names) |->
                   ExportInfo(node.names[i], filePath, "interface", FALSE)]
          [] node.kind = "TypeAliasDeclaration" /\ exported ->
               [i \in 1..Len(node.names) |->
                   ExportInfo(node.names[i], filePath, "type", FALSE)]
          [] node.kind = "EnumDeclaration" /\ exported ->
               [i \in 1..Len(node.names) |->
                   ExportInfo(node.names[i], filePath, "enum", FALSE)]
          [] node.kind = "ExportDeclaration"
                 /\ node.moduleSpecifier /\ node.namedExports ->
               [i \in 1..Len(node.elements) |->
                   ExportInfo(exportedName(node, i), filePath, "reexport", FALSE)]
          [] OTHER -> <<>>

\* visit that takes interfaces and type aliases, which are erased when the
\* file is compiled, for no exports
RECURSIVE visitSkippingTypes(_, _)
visitSkippingTypes(filePath, node) ==
    (IF node.kind \in {"InterfaceDeclaration", "TypeAliasDeclaration"}
     THEN <<>> ELSE NodeExports(filePath, node))
        \o Concat([i \in 1..Len(node.children) |->
                      visitSkippingTypes(filePath, node.children[i])])

\* visit(node): the node's own records, then ts.forEachChild(node, visit)
RECURSIVE visit(_, _)
visit(filePath, node) ==
    NodeExports(filePath, node)
        \o Concat([i \in 1..Len(node.children) |-> visit(filePath, node.children[i])])

parseFileExports(filePath, sourceFile) == visit(filePath, sourceFile)

----------------------------------------------------------------------------
(* The file system the scanner reads.                                      *)

\* the source text of each file of the model, as its syntax tree
ButtonTsx ==
    SourceFile(<<DeclNode("VariableStatement", {"export"}, <<"Button">>)>>)

LegacyTs ==
    SourceFile(<<DeclNode("ClassDeclaration", {"export"}, <<"Button">>),
                 DeclNode("FunctionDeclaration", {"export"}, <<"helper">>),
                 ExportNode(TRUE, TRUE, <<"Card">>)>>)

IndexTs ==
    SourceFile(<<ExportNode(TRUE, TRUE, <<"Button", "Card", "helper">>),
                 ExportNode(TRUE, FALSE, <<>>),
                 DeclNode("VariableStatement", {}, <<"local">>),
                 ExportNode(FALSE, TRUE, <<"local">>)>>)

KindsTs ==
    SourceFile(<<DeclNode("VariableStatement", {"export"}, <<"MyVariable">>),
                 DeclNode("FunctionDeclaration", {"export"}, <<"myFunction">>),
                 DeclNode("ClassDeclaration", {"export"}, <<"MyClass">>),
                 DeclNode("InterfaceDeclaration", {"export"}, <<"MyInterface">>),
                 DeclNode("TypeAliasDeclaration", {"export"}, <<"MyType">>),
                 DeclNode("EnumDeclaration", {"export"}, <<"MyEnum">>)>>)

\* the files a glob of /r1/src may list; broken.ts cannot be read
R1Files == {"/r1/src/Button.tsx", "/r1/src/Legacy.ts", "/r1/src/index.ts",
            "/r1/src/broken.ts"}

\* fs.readFile(filePath, 'utf-8'): the text, or a rejection with its cause
readFile(filePath) ==
    CASE filePath = "/r1/src/Button.tsx" -> [ok |-> TRUE, text |-> ButtonTsx, error |-> ""]
      [] filePath = "/r1/src/Legacy.ts"  -> [ok |-> TRUE, text |-> LegacyTs, error |-> ""]
      [] filePath = "/r1/src/index.ts"   -> [ok |-> TRUE, text |-> IndexTs, error |-> ""]
      [] filePath = "/r2/src/kinds.ts"   -> [ok |-> TRUE, text |-> KindsTs, error |-> ""]
      [] OTHER -> [ok |-> FALSE, text |-> SourceFile(<<>>),
                   error |-> "Error: EACCES: permission denied"]

\* line 284, parseFileExports(filePath, content), for every readable file:
\* the text of a file does not change, so its records are the same each time
\* the file is read and parsed
FileExports ==
    [f \in {g \in R1Files \cup {"/r2/src/kinds.ts"} : readFile(g).ok} |->
        parseFileExports(f, readFile(f).text)]

\* the listings of distinct files of pool, of length at most n
Listings(pool, n) ==
    {s \in UNION {[1..k -> pool] : k \in 0..n} :
        \A i, j \in 1..Len(s) : i # j => s[i] # s[j]}

\* what fast-glob answers for one source directory: the matching files, or a
\* rejection (directory missing or unreadable)
GlobAnswers(pool) ==
    {[ok |-> FALSE, files |-> <<>>, error |-> "Error: ENOENT: no such directory"]}
        \cup {[ok |-> TRUE, files |-> s, error |-> ""] : s \in Listings(pool, MaxFiles)}

\* path.join(packageRoot, 'src'), exportScanner.ts:274
SrcDir(packageRoot) == <<packageRoot, "src">>

\* fg(SOURCE_GLOB_PATTERN, {cwd: srcDir, ...}) on file system f
fg(f, srcDir) == f[srcDir[1]]

\* collectSourceFiles, exportScanner.ts:89-102: the files, or, when the glob
\* rejects, the empty list (the catch logs the error and returns []); the
\* function itself never rejects
collectSourceFiles(f, srcDir) ==
    IF fg(f, srcDir).ok
    THEN [threw |-> FALSE, files |-> fg(f, srcDir).files, error |-> ""]
    ELSE [threw |-> FALSE, files |-> <<>>, error |-> ""]

----------------------------------------------------------------------------
(* The scan cache, exportScanner.ts:27-84 and 320-322.                     *)

\* a Map with no entries
EmptyMap == [k \in {} |-> FALSE]

MapSet(m, k, v) == [x \in (DOMAIN m) \cup {k} |-> IF x = k THEN v ELSE m[x]]

MapDelete(m, k) == [x \in (DOMAIN m) \ {k} |-> m[x]]

\* { exports, errors }
ExportScanResult(exports, errors) == [exports |-> exports, errors |-> errors]

\* the value of a variable that holds no scan result
NoResult == ExportScanResult(EmptyMap, <<>>)

\* createCacheKey with the package root left out of the key
createCacheKeyShared(packageRoot) == <<"exports::", "">>

createCacheKey(packageRoot) == <<"exports::", packageRoot>>

\* isCacheValid with the comparison turned round
isCacheValidReversed(cacheEntry, t) == cacheEntry.expiresAt < t

\* isCacheValid that still accepts an entry at the instant it expires
isCacheValidInclusive(cacheEntry, t) == cacheEntry.expiresAt >= t

isCacheValid(cacheEntry, t) == cacheEntry.expiresAt > t

\* getFromCache at clock time t: whether a result is returned, the result,
\* and the cache as the call leaves it (a stale entry is deleted)
getFromCache(cache, packageRoot, t) ==
    LET cacheKey == createCacheKey(packageRoot)
    IN  IF cacheKey \in DOMAIN cache /\ isCacheValid(cache[cacheKey], t)
        THEN [hit |-> TRUE, result |-> cache[cacheKey].result, cache |-> cache]
        ELSE [hit |-> FALSE, result |-> NoResult, cache |-> MapDelete(cache, cacheKey)]

\* setCache that leaves an entry already held for the root in place
setCacheKeepsFirst(cache, packageRoot, result, t) ==
    IF createCacheKey(packageRoot) \in DOMAIN cache THEN cache
    ELSE MapSet(cache, createCacheKey(packageRoot),
                [expiresAt |-> t + CACHE_TTL_MS, result |-> result])

setCache(cache, packageRoot, result, t) ==
    MapSet(cache, createCacheKey(packageRoot),
           [expiresAt |-> t + CACHE_TTL_MS, result |-> result])

----------------------------------------------------------------------------
(* The index builder: the body of the file loop, exportScanner.ts:281-296. *)

\* the value exports.get / findExportSource gives for a name that is no key
Undefined == ExportInfo("", "", "undefined", FALSE)

\* Map.get
MapGet(m, k) == IF k \in DOMAIN m THEN m[k] ELSE Undefined

\* MergeExport that always overwrites: the last record wins
MergeExportLastWins(exports, exportInfo) ==
    MapSet(exports, exportInfo.name, exportInfo)

\* MergeExport that prefers definitions by never storing a re-export
MergeExportDropsReexport(exports, exportInfo) ==
    IF exportInfo.kind # "reexport"
          /\ (MapGet(exports, exportInfo.name) = Undefined
                 \/ MapGet(exports, exportInfo.name).kind = "reexport")
    THEN MapSet(exports, exportInfo.name, exportInfo)
    ELSE exports

\* MergeExport that lets any later record take the place of a re-export
MergeExportReplacesReexport(exports, exportInfo) ==
    LET existing == MapGet(exports, exportInfo.name)
    IN  IF existing = Undefined \/ existing.kind = "reexport"
        THEN MapSet(exports, exportInfo.name, exportInfo)
        ELSE exports

\* lines 288-291: keep the held record unless it is absent, or it is a
\* re-export and the new record is not
MergeExport(exports, exportInfo) ==
    LET existing == MapGet(exports, exportInfo.name)
    IN  IF existing = Undefined
           \/ (existing.kind = "reexport" /\ exportInfo.kind # "reexport")
        THEN MapSet(exports, exportInfo.name, exportInfo)
        ELSE exports

\* lines 286-292: for (const exportInfo of fileExports) ...
RECURSIVE MergeFileExports(_, _)
MergeFileExports(exports, fileExports) ==
    IF fileExports = <<>> THEN exports
    ELSE CHOOSE merged \in
             {MergeFileExports(held, Tail(fileExports)) :
                 held \in {MergeExport(exports, Head(fileExports))}} : TRUE

\* line 294: `Failed to parse ${filePath}: ${error}`
FailedToParse(filePath, error) == <<"Failed to parse ", filePath, ": ", error>>

\* line 298: `Failed to scan src directory: ${error}`
FailedToScan(error) == <<"Failed to scan src directory: ", error>>

\* ProcessFile whose failure path also drops what was collected so far
ProcessFileFailureResets(exports, errors, filePath) ==
    LET content == readFile(filePath)
    IN  IF content.ok
        THEN [exports |-> MergeFileExports(exports, FileExports[filePath]),
              errors  |-> errors]
        ELSE [exports |-> EmptyMap,
              errors  |-> Append(errors, FailedToParse(filePath, content.error))]

\* lines 282-295: one iteration of the file loop, once readFile has settled
ProcessFile(exports, errors, filePath) ==
    LET content == readFile(filePath)
    IN  IF content.ok
        THEN [exports |-> MergeFileExports(exports, FileExports[filePath]),
              errors  |-> errors]
        ELSE [exports |-> exports,
              errors  |-> Append(errors, FailedToParse(filePath, content.error))]

----------------------------------------------------------------------------
(* The calls.  A call is idle, awaits the glob ("collect"), awaits the     *)
(* readFile of files[i] ("read"), or has returned ("done").                *)

IdleCall ==
    [pc |-> "idle", op |-> "", packageRoot |-> "", exportName |-> "",
     files |-> <<>>, i |-> 0, exports |-> EmptyMap, errors |-> <<>>,
     result |-> NoResult, info |-> Undefined,
     globs |-> 0, reads |-> 0, found |-> "", afterClear |-> ""]

\* what the entry of packageRoot is to a reader at time t, by the contract of
\* the cache: "none", "fresh" (t < expiresAt) or "stale"
EntryState(cache, packageRoot, t) ==
    LET cacheKey == createCacheKey(packageRoot)
    IN  IF cacheKey \notin DOMAIN cache THEN "none"
        ELSE IF t < cache[cacheKey].expiresAt THEN "fresh" ELSE "stale"

\* history of a call: whether it is the first call for packageRoot after a
\* clearExportCache that removed an entry of the root whose TTL has still not
\* run out at time t ("cleared"), and whether a scan that was in flight at
\* the clear has stored an entry for the root since ("restored")
AfterClear(packageRoot, t) ==
    IF clearedExp[packageRoot] > t
    THEN (IF packageRoot \in storedSince THEN "restored" ELSE "cleared")
    ELSE ""

\* ReturnedInfo that hides a record of kind 'reexport' from the caller
ReturnedInfoSkipsReexport(op, result, exportName) ==
    IF op = "find" /\ MapGet(result.exports, exportName).kind # "reexport"
    THEN MapGet(result.exports, exportName) ELSE Undefined

\* findExportSource line 314: scanResult.exports.get(exportName); a call of
\* scanPackageExports itself returns no record
ReturnedInfo(op, result, exportName) ==
    IF op = "find" THEN MapGet(result.exports, exportName) ELSE Undefined

\* lines 267-276: the synchronous start of scanPackageExports, up to the first
\* await (the glob) or to the return of the cached result
Begin(p, op, packageRoot, exportName) ==
    /\ calls[p].pc = "idle"
    /\ LET got  == getFromCache(exportCache, packageRoot, now)
           base == [IdleCall EXCEPT
                       !.op = op, !.packageRoot = packageRoot,
                       !.exportName = exportName,
                       !.found = EntryState(exportCache, packageRoot, now),
                       !.afterClear = AfterClear(packageRoot, now)]
       IN  /\ exportCache' = got.cache
           /\ calls' = [calls EXCEPT ![p] =
                  IF got.hit
                  THEN [base EXCEPT !.pc = "done", !.result = got.result,
                                    !.info = ReturnedInfo(op, got.result, exportName)]
                  ELSE [base EXCEPT !.pc = "collect", !.globs = 1]]
    /\ clearedExp' = [clearedExp EXCEPT ![packageRoot] = 0]
    /\ storedSince' = storedSince \ {packageRoot}
    /\ UNCHANGED <<now, ticksLeft, fs>>

ScanPackageExports(p, packageRoot) ==
    /\ Begin(p, "scan", packageRoot, "")
    /\ UNCHANGED <<modulesVars, toolVars, fetchVars, jiraVars, otherVars>>

FindExportSource(p, packageRoot, exportName) ==
    /\ Begin(p, "find", packageRoot, exportName)
    /\ UNCHANGED <<modulesVars, toolVars, fetchVars, jiraVars, otherVars>>

\* lines 301-303 (and 313-314 for findExportSource): store and return
Finish(p, exports, errors) ==
    LET c      == calls[p]
        result == ExportScanResult(exports, errors)
    IN  /\ exportCache' = setCache(exportCache, c.packageRoot, result, now)
        /\ calls' = [calls EXCEPT ![p] =
               [c EXCEPT !.pc = "done", !.exports = exports, !.errors = errors,
                         !.result = result,
                         !.info = ReturnedInfo(c.op, result, c.exportName)]]
        /\ storedSince' = IF clearedExp[c.packageRoot] > 0
                          THEN storedSince \cup {c.packageRoot} ELSE storedSince

\* line 279 settles: a rejection is caught at lines 297-299; otherwise the
\* listing is known, and with no file the loop is skipped and the call
\* finishes, else the first readFile is awaited
AwaitCollect(p) ==
    LET c         == calls[p]
        collected == collectSourceFiles(fs, SrcDir(c.packageRoot))
    IN  /\ c.pc = "collect"
        /\ IF collected.threw
           THEN Finish(p, c.exports, Append(c.errors, FailedToScan(collected.error)))
           ELSE IF collected.files = <<>>
           THEN Finish(p, c.exports, c.errors)
           ELSE /\ calls' = [calls EXCEPT ![p] =
                       [c EXCEPT !.pc = "read", !.files = collected.files,
                                 !.i = 1, !.reads = 1]]
                /\ UNCHANGED <<exportCache, storedSince>>
        /\ UNCHANGED <<now, ticksLeft, fs, clearedExp>>
        /\ UNCHANGED <<modulesVars, toolVars, fetchVars, jiraVars, otherVars>>

\* AwaitRead that takes the files from the end of the listing
AwaitReadFromEnd(p) ==
    LET c    == calls[p]
        step == ProcessFile(c.exports, c.errors, c.files[Len(c.files) - c.i + 1])
    IN  /\ c.pc = "read"
        /\ IF c.i = Len(c.files)
           THEN Finish(p, step.exports, step.errors)
           ELSE /\ calls' = [calls EXCEPT ![p] =
                       [c EXCEPT !.exports = step.exports, !.errors = step.errors,
                                 !.i = c.i + 1, !.reads = c.reads + 1]]
                /\ UNCHANGED <<exportCache, storedSince>>
        /\ UNCHANGED <<now, ticksLeft, fs, clearedExp>>
        /\ UNCHANGED <<modulesVars, toolVars, fetchVars, jiraVars, otherVars>>

\* line 283 settles for files[i]: the file is merged or its error recorded;
\* then the next readFile is awaited, or the call finishes
AwaitRead(p) ==
    LET c    == calls[p]
        step == ProcessFile(c.exports, c.errors, c.files[c.i])
    IN  /\ c.pc = "read"
        /\ IF c.i = Len(c.files)
           THEN Finish(p, step.exports, step.errors)
           ELSE /\ calls' = [calls EXCEPT ![p] =
                       [c EXCEPT !.exports = step.exports, !.errors = step.errors,
                                 !.i = c.i + 1, !.reads = c.reads + 1]]
                /\ UNCHANGED <<exportCache, storedSince>>
        /\ UNCHANGED <<now, ticksLeft, fs, clearedExp>>
        /\ UNCHANGED <<modulesVars, toolVars, fetchVars, jiraVars, otherVars>>

\* the caller takes the returned value; its slot is free for another call
Return(p) ==
    /\ calls[p].pc = "done"
    /\ calls' = [calls EXCEPT ![p] = IdleCall]
    /\ UNCHANGED <<now, ticksLeft, fs, exportCache, clearedExp, storedSince>>
    /\ UNCHANGED <<modulesVars, toolVars, fetchVars, jiraVars, otherVars>>

\* clearExportCache that leaves the entries in place
ClearExportCacheKeeps ==
    /\ exportCache' = exportCache
    /\ clearedExp' = [r \in DOMAIN fs |->
           IF createCacheKey(r) \in DOMAIN exportCache
           THEN exportCache[createCacheKey(r)].expiresAt ELSE clearedExp[r]]
    /\ storedSince' = {r \in storedSince : createCacheKey(r) \notin DOMAIN exportCache}
    /\ UNCHANGED <<now, ticksLeft, fs, calls>>
    /\ UNCHANGED <<modulesVars, toolVars, fetchVars, jiraVars, otherVars>>

\* clearExportCache that also abandons the scans in flight
ClearExportCacheCancels ==
    /\ exportCache' = EmptyMap
    /\ clearedExp' = [r \in DOMAIN fs |->
           IF createCacheKey(r) \in DOMAIN exportCache
           THEN exportCache[createCacheKey(r)].expiresAt ELSE clearedExp[r]]
    /\ storedSince' = {r \in storedSince : createCacheKey(r) \notin DOMAIN exportCache}
    /\ calls' = [p \in DOMAIN calls |->
           IF calls[p].pc \in {"collect", "read"} THEN IdleCall ELSE calls[p]]
    /\ UNCHANGED <<now, ticksLeft, fs>>
    /\ UNCHANGED <<modulesVars, toolVars, fetchVars, jiraVars, otherVars>>

\* clearExportCache, lines 320-322
ClearExportCache ==
    /\ exportCache' = EmptyMap
    /\ clearedExp' = [r \in DOMAIN fs |->
           IF createCacheKey(r) \in DOMAIN exportCache
           THEN exportCache[createCacheKey(r)].expiresAt ELSE clearedExp[r]]
    /\ storedSince' = {r \in storedSince : createCacheKey(r) \notin DOMAIN exportCache}
    /\ UNCHANGED <<now, ticksLeft, fs, calls>>
    /\ UNCHANGED <<modulesVars, toolVars, fetchVars, jiraVars, otherVars>>

\* time passes
Tick ==
    /\ ticksLeft > 0
    /\ \E d \in TickSteps : now' = now + d
    /\ ticksLeft' = ticksLeft - 1
    /\ UNCHANGED <<fs, exportCache, calls, clearedExp, storedSince>>
    /\ UNCHANGED <<modulesVars, toolVars, fetchVars, jiraVars, otherVars>>

\* the names findExportSource is asked for
ExportNames == {"Button", "DoesNotExist"}

\* a file system with /r1 only, whose glob answers a
OnlyR1(a) == [r \in {"/r1"} |-> a]

\* the file system with both roots: index.ts re-exports what Button.tsx
\* defines, kinds.ts declares one export of each kind
BothRoots ==
    [r \in Roots |->
        IF r = "/r1"
        THEN [ok |-> TRUE, files |-> <<"/r1/src/index.ts", "/r1/src/Button.tsx">>,
              error |-> ""]
        ELSE [ok |-> TRUE, files |-> <<"/r2/src/kinds.ts">>, error |-> ""]]

\* The initial states are three bounded environments of the scanner:
\*   - index building: one caller, any listing of /r1/src, a clock that stands;
\*   - cache lifetime: one caller, both roots, a clock that advances MaxTicks times;
\*   - concurrency:    every caller, both roots, a clock that advances once.
Environments ==
    {[callers |-> {"p1"}, fs |-> OnlyR1(a), ticksLeft |-> 0] : a \in GlobAnswers(R1Files)}
        \cup {[callers |-> {"p1"}, fs |-> BothRoots, ticksLeft |-> MaxTicks]}
        \cup {[callers |-> Procs, fs |-> BothRoots, ticksLeft |-> 1]}

Init ==
    /\ now = 0
    /\ exportCache = EmptyMap
    /\ storedSince = {}
    /\ \E e \in Environments :
          /\ fs = e.fs
          /\ ticksLeft = e.ticksLeft
          /\ calls = [p \in e.callers |-> IdleCall]
          /\ clearedExp = [r \in DOMAIN e.fs |-> 0]
    /\ nodeModules = EmptyMap /\ modulesCache = EmptyMap /\ mcalls = EmptyMap
    /\ tools = EmptyMap
    /\ fetchCache = EmptyMap /\ fcalls = EmptyMap
    /\ jcalls = EmptyMap
    /\ OthersIdle

Next ==
    \/ \E p \in DOMAIN calls, r \in DOMAIN fs : ScanPackageExports(p, r)
    \/ \E p \in DOMAIN calls, r \in DOMAIN fs, n \in ExportNames :
          FindExportSource(p, r, n)
    \/ \E p \in DOMAIN calls : AwaitCollect(p)
    \/ \E p \in DOMAIN calls : AwaitRead(p)
    \/ \E p \in DOMAIN calls : Return(p)
    \/ ClearExportCache
    \/ Tick

Spec == Init /\ [][Next]_vars

----------------------------------------------------------------------------
(* Reference definitions the properties are stated with: what the file     *)
(* system holds, independently of any call.                                *)

Range(seq) == {seq[i] : i \in 1..Len(seq)}

\* the files of <root>/src, none when the directory cannot be listed
Listed(root) == IF fs[root].ok THEN fs[root].files ELSE <<>>

Readable(filePath) == readFile(filePath).ok

\* the records a file contributes: those parsed from its text, none when the
\* file cannot be read
FileRecords(filePath) ==
    IF Readable(filePath)
    THEN parseFileExports(filePath, readFile(filePath).text) ELSE <<>>

\* the index of a listing, built in one piece, file after file
RECURSIVE BuildIndex(_, _)
BuildIndex(exports, files) ==
    IF files = <<>> THEN exports
    ELSE BuildIndex(MergeFileExports(exports, FileRecords(Head(files))), Tail(files))

\* the error entries of a listing: one per unreadable file, in listing order
ParseErrors(files) ==
    LET failing == SelectSeq(files, LAMBDA f : ~Readable(f))
    IN  [i \in 1..Len(failing) |->
            <<"Failed to parse ", failing[i], ": ", readFile(failing[i]).error>>]

\* a call that has run a scan of the file system to its end
Scanned(c) == c.pc = "done" /\ c.globs = 1

\* every record found for name in files is a re-export, and there is one
OnlyReexported(files, name) ==
    LET recs == UNION {Range(FileRecords(f)) : f \in Range(files)}
    IN  /\ \E r \in recs : r.name = name
        /\ \A r \in recs : r.name = name => r.kind = "reexport"

\* file files[i] yields a record for name that is (is not) a re-export
Yields(files, i, name, reexport) ==
    \E r \in Range(FileRecords(files[i])) :
        r.name = name /\ (r.kind = "reexport") = reexport

----------------------------------------------------------------------------
(* C1: in the index a scan returns, a name for which some successfully     *)
(* parsed file of the listing yields a non-reexport record is mapped to a  *)
(* non-reexport record, whatever the order of the files.                   *)
C1_DefinitionOverReexport ==
    \A p \in DOMAIN calls :
        Scanned(calls[p]) =>
            \A f \in Range(calls[p].files) :
                \A r \in Range(FileRecords(f)) :
                    r.kind # "reexport" =>
                        /\ r.name \in DOMAIN calls[p].result.exports
                        /\ calls[p].result.exports[r.name].kind # "reexport"

\* a finished scan of a listing in which Button is defined before it is
\* re-exported and helper is re-exported before it is defined
C1_Witness ==
    \E p \in DOMAIN calls :
        LET c == calls[p]
        IN  /\ Scanned(c)
            /\ \E i, j \in 1..Len(c.files) :
                  i < j /\ Yields(c.files, i, "Button", FALSE)
                        /\ Yields(c.files, j, "Button", TRUE)
            /\ \E i, j \in 1..Len(c.files) :
                  i < j /\ Yields(c.files, i, "helper", TRUE)
                        /\ Yields(c.files, j, "helper", FALSE)
            /\ c.result.exports["Button"].kind # "reexport"
            /\ c.result.exports["helper"].kind # "reexport"

\* the step in which caller p starts a call
BeginStep(p) == calls[p].pc = "idle" /\ calls'[p].pc # "idle"

\* the step in which caller p's scan of the file system ends
ScanEndStep(p) == calls[p].pc \in {"collect", "read"} /\ calls'[p].pc = "done"

\* the cache with the entry of key set to entry / with no entry of key
WithEntry(cache, key, entry) ==
    [k \in (DOMAIN cache) \cup {key} |-> IF k = key THEN entry ELSE cache[k]]

WithoutEntry(cache, key) == [k \in (DOMAIN cache) \ {key} |-> cache[k]]

\* the index and the result of one whole scan of root
WholeIndex(root) == BuildIndex(EmptyMap, Listed(root))

WholeScan(root) == [exports |-> WholeIndex(root), errors |-> ParseErrors(Listed(root))]

(* C2: the result a scan returns is the result it stores, and a call that  *)
(* starts while the entry of its root is present and not expired returns   *)
(* the stored result, with no glob and no file read, and leaves the cache  *)
(* as it is.                                                               *)
C2_Step ==
    \A p \in DOMAIN calls :
        LET d   == calls'[p]
            key == <<"exports::", d.packageRoot>>
        IN  /\ ScanEndStep(p) =>
                  /\ key \in DOMAIN exportCache'
                  /\ exportCache'[key].result = d.result
            /\ (BeginStep(p) /\ key \in DOMAIN exportCache
                    /\ now < exportCache[key].expiresAt) =>
                  /\ d.pc = "done"
                  /\ d.result = exportCache[key].result
                  /\ d.globs = 0 /\ d.reads = 0
                  /\ exportCache' = exportCache

\* C2: every step of every behaviour is a C2_Step (cache hits touch no file)
C2_CacheHit == [][C2_Step]_vars

\* a call has been served a non-empty index from a fresh entry without
\* touching the file system
C2_Witness ==
    \E p \in DOMAIN calls :
        LET c == calls[p]
        IN  /\ c.pc = "done" /\ c.found = "fresh"
            /\ c.globs = 0 /\ c.reads = 0
            /\ c.result.exports # EmptyMap
            /\ c.result = WholeScan(c.packageRoot)

(* C3: a scan that ends at time t stores its result with expiresAt =       *)
(* t + 300000, replacing the entry of its root; a call that finds an entry *)
(* at time t' is served it exactly when t' < expiresAt, and otherwise      *)
(* removes the entry and rescans the file system.                          *)
C3_Step ==
    \A p \in DOMAIN calls :
        LET d   == calls'[p]
            key == <<"exports::", d.packageRoot>>
        IN  /\ ScanEndStep(p) =>
                  exportCache' = WithEntry(exportCache, key,
                                     [expiresAt |-> now + 300000, result |-> d.result])
            /\ (BeginStep(p) /\ key \in DOMAIN exportCache) =>
                  IF now < exportCache[key].expiresAt
                  THEN /\ d.pc = "done"
                       /\ d.result = exportCache[key].result
                       /\ exportCache' = exportCache
                  ELSE /\ d.pc = "collect" /\ d.globs = 1
                       /\ exportCache' = WithoutEntry(exportCache, key)

\* C3: every step of every behaviour is a C3_Step (TTL of 300000 ms)
C3_TtlExpiry == [][C3_Step]_vars

\* a call that found an entry at the instant it expired has rescanned and
\* has just stored a fresh entry
C3_Witness ==
    \E p \in DOMAIN calls :
        LET c   == calls[p]
            key == <<"exports::", c.packageRoot>>
        IN  /\ c.pc = "done" /\ c.found = "stale" /\ c.globs = 1
            /\ key \in DOMAIN exportCache
            /\ exportCache[key].expiresAt = now + 300000
            /\ now >= 300000

(* C4 as stated: the first call for a root after a clearExportCache that   *)
(* removed an unexpired entry of the root performs a fresh scan.           *)
C4_ClearForcesRescan ==
    \A p \in DOMAIN calls :
        calls[p].afterClear \in {"cleared", "restored"} => calls[p].globs = 1

(* C4 amended: the first call for a root after a clearExportCache that     *)
(* removed an unexpired entry of the root performs a fresh scan, provided  *)
(* no scan of that root has stored a result since the clear.               *)
C4_ClearForcesRescanUnlessRestored ==
    \A p \in DOMAIN calls :
        calls[p].afterClear = "cleared" => calls[p].globs = 1

\* the first call after a clear is rescanning while the removed entry would
\* still be valid
C4_Witness ==
    \E p \in DOMAIN calls :
        /\ calls[p].afterClear = "cleared"
        /\ calls[p].pc \in {"collect", "read"}
        /\ calls[p].globs = 1

(* C5: when the glob of <root>/src fails, the scan returns an index with   *)
(* empty exports and exactly one error, 'Failed to scan src directory:     *)
(* <cause>'.                                                               *)
C5_CollectFailureReported ==
    \A p \in DOMAIN calls :
        LET c == calls[p]
        IN  (Scanned(c) /\ ~fs[c.packageRoot].ok) =>
                /\ c.result.exports = EmptyMap
                /\ c.result.errors =
                       << <<"Failed to scan src directory: ", fs[c.packageRoot].error>> >>

C7_FailuresAreData ==
    \A p \in DOMAIN calls :
        LET c == calls[p]
        IN  /\ c.pc \in {"idle", "collect", "read", "done"}
            /\ c.pc = "done" =>
                  /\ ~fs[c.packageRoot].ok =>
                        \E e \in Range(c.result.errors) :
                            e = <<"Failed to scan src directory: ", fs[c.packageRoot].error>>
                  /\ \A f \in Range(Listed(c.packageRoot)) :
                        ~Readable(f) =>
                            \E e \in Range(c.result.errors) :
                                e = <<"Failed to parse ", f, ": ", readFile(f).error>>
                  /\ (c.op = "find" /\ c.exportName \notin DOMAIN c.result.exports) =>
                        c.info = Undefined

(* C8: findExportSource returns the record the index of its root holds     *)
(* under the name, Undefined when the name is no key; a call reads the     *)
(* cache and stores into it in the same way whichever of the two           *)
(* operations it is.                                                       *)
C8_Step ==
    \A p \in DOMAIN calls :
        LET c   == calls[p]
            d   == calls'[p]
            key == <<"exports::", d.packageRoot>>
            idx == WholeIndex(d.packageRoot)
        IN  /\ (c.pc # "done" /\ d.pc = "done" /\ d.op = "find") =>
                  /\ d.result.exports = idx
                  /\ d.info = IF d.exportName \in DOMAIN idx
                              THEN idx[d.exportName] ELSE Undefined
            /\ (BeginStep(p) /\ d.pc = "done") =>
                  /\ key \in DOMAIN exportCache
                  /\ d.result = exportCache[key].result
                  /\ exportCache' = exportCache
            /\ (BeginStep(p) /\ d.pc # "done") =>
                  /\ d.pc = "collect"
                  /\ exportCache' = WithoutEntry(exportCache, key)
            /\ ScanEndStep(p) =>
                  exportCache' = WithEntry(exportCache, key,
                                     [expiresAt |-> now + CACHE_TTL_MS, result |-> d.result])

\* C8: every step of every behaviour is a C8_Step (findExportSource is a lookup)
C8_FindIsLookup == [][C8_Step]_vars

\* findExportSource has scanned, stored the index, and returned Undefined
\* for a name missing from a non-empty index
C8_Witness ==
    \E p \in DOMAIN calls :
        LET c == calls[p]
        IN  /\ c.pc = "done" /\ c.op = "find" /\ c.globs = 1
            /\ c.result.exports # EmptyMap
            /\ c.exportName \notin DOMAIN c.result.exports
            /\ c.info = Undefined
            /\ <<"exports::", c.packageRoot>> \in DOMAIN exportCache

(* C9: every cache entry is stored under the key of one root and holds the *)
(* result of one whole scan of that root, and a step of a call for a root  *)
(* leaves the entries of every other root as they are.                     *)
C9_Inv ==
    \A key \in DOMAIN exportCache :
        \E r \in DOMAIN fs :
            /\ key = <<"exports::", r>>
            /\ exportCache[key].result = WholeScan(r)

C9_Step ==
    \A p \in DOMAIN calls :
        calls'[p] # calls[p] =>
            LET root == IF calls'[p].pc = "idle" THEN calls[p].packageRoot
                        ELSE calls'[p].packageRoot
            IN  \A r \in (DOMAIN fs) \ {root} :
                    LET k == <<"exports::", r>>
                    IN  /\ (k \in DOMAIN exportCache) <=> (k \in DOMAIN exportCache')
                        /\ k \in DOMAIN exportCache => exportCache'[k] = exportCache[k]

\* C9: C9_Inv holds in every state and every step is a C9_Step
C9_NoCorruption == []C9_Inv /\ [][C9_Step]_vars

\* two scans are reading files at the same time, one of them with a partly
\* built index, while the cache holds an entry
C9_Witness ==
    \E p, q \in DOMAIN calls :
        /\ p # q
        /\ calls[p].pc = "read" /\ calls[p].i = 2 /\ calls[p].exports # EmptyMap
        /\ calls[q].pc = "read"
        /\ exportCache # EmptyMap

(* C10: a name for which every record found is a re-export is in the index,*)
(* mapped to a re-export record, and findExportSource returns that record. *)
C10_ReexportFallback ==
    \A p \in DOMAIN calls :
        LET c == calls[p]
        IN  /\ Scanned(c) =>
                \A n \in {r.name : r \in UNION {Range(FileRecords(f)) : f \in Range(c.files)}} :
                    OnlyReexported(c.files, n) =>
                        /\ n \in DOMAIN c.result.exports
                        /\ c.result.exports[n].kind = "reexport"
                        /\ c.result.exports[n].name = n
            /\ (c.pc = "done" /\ c.op = "find"
                    /\ OnlyReexported(Listed(c.packageRoot), c.exportName)) =>
                  /\ c.info.kind = "reexport"
                  /\ c.info.name = c.exportName
                  /\ c.info.filePath \in Range(Listed(c.packageRoot))

\* findExportSource has returned a re-export record for a name that no
\* listed file defines
C10_Witness ==
    \E p \in DOMAIN calls :
        LET c == calls[p]
        IN  /\ c.pc = "done" /\ c.op = "find"
            /\ OnlyReexported(Listed(c.packageRoot), c.exportName)
            /\ c.info.kind = "reexport"

----------------------------------------------------------------------------
(* Reference definitions for the parser: what a text declares.             *)

\* the six kinds of exported declarations
DeclarationKinds == {"variable", "function", "class", "interface", "type", "enum"}

\* the kind expected for a declaration statement of a SyntaxKind
DeclaredKind(syntaxKind) ==
    CASE syntaxKind = "VariableStatement"    -> "variable"
      [] syntaxKind = "FunctionDeclaration"  -> "function"
      [] syntaxKind = "ClassDeclaration"     -> "class"
      [] syntaxKind = "InterfaceDeclaration" -> "interface"
      [] syntaxKind = "TypeAliasDeclaration" -> "type"
      [] syntaxKind = "EnumDeclaration"      -> "enum"
      [] OTHER -> "none"

\* every node of a tree, the node before its children
RECURSIVE Nodes(_)
Nodes(node) ==
    <<node>> \o Concat([i \in 1..Len(node.children) |-> Nodes(node.children[i])])

\* the exported named declarations of a text, as <<name, kind>>
ExportedDeclarations(sourceFile) ==
    LET nodes == Nodes(sourceFile)
    IN  Concat([i \in 1..Len(nodes) |->
            IF "export" \in nodes[i].modifiers
                  /\ DeclaredKind(nodes[i].kind) \in DeclarationKinds
            THEN LET named == SelectSeq(nodes[i].names, LAMBDA n : n # NoName)
                 IN  [j \in 1..Len(named) |-> <<named[j], DeclaredKind(nodes[i].kind)>>]
            ELSE <<>>])

\* a text with one exported declaration of each kind, all names different,
\* and no re-export
OneOfEachKind(sourceFile) ==
    LET decls == ExportedDeclarations(sourceFile)
    IN  /\ Len(decls) = Cardinality(DeclarationKinds)
        /\ {decls[i][2] : i \in 1..Len(decls)} = DeclarationKinds
        /\ \A i, j \in 1..Len(decls) : i # j => decls[i][1] # decls[j][1]
        /\ \A n \in Range(Nodes(sourceFile)) : n.kind # "ExportDeclaration"

(* C11: a file a scan has read yields, for each of its exported named      *)
(* declarations of kind K, exactly one record with that name and kind K,   *)
(* and no record of the six kinds without a declaration; a scan of a       *)
(* single file with one exported declaration of each kind and no name      *)
(* collision returns exactly six records, one of each kind.                *)
C11_OneRecordPerDeclaration ==
    \A p \in DOMAIN calls :
        LET c == calls[p]
        IN  /\ \A i \in 1..Len(c.files) :
                  (Readable(c.files[i]) /\ (c.pc = "done" \/ i < c.i)) =>
                      LET recs  == FileRecords(c.files[i])
                          decls == ExportedDeclarations(readFile(c.files[i]).text)
                      IN  /\ \A d \in Range(decls) :
                                Cardinality({j \in 1..Len(recs) :
                                    recs[j].name = d[1] /\ recs[j].kind = d[2]}) = 1
                          /\ \A j \in 1..Len(recs) :
                                recs[j].kind \in DeclarationKinds =>
                                    /\ <<recs[j].name, recs[j].kind>> \in Range(decls)
                                    /\ recs[j].filePath = c.files[i]
                          /\ \A d \in Range(decls) :
                                (\A r \in Range(recs) : r.name = d[1] => r.kind = d[2]) =>
                                    \/ c.pc # "done"
                                    \/ d[1] \in DOMAIN c.result.exports
            /\ (Scanned(c) /\ Len(c.files) = 1 /\ Readable(c.files[1])
                    /\ OneOfEachKind(readFile(c.files[1]).text)) =>
                  /\ Cardinality(DOMAIN c.result.exports) = 6
                  /\ {c.result.exports[n].kind : n \in DOMAIN c.result.exports}
                         = DeclarationKinds
                  /\ \A d \in Range(ExportedDeclarations(readFile(c.files[1]).text)) :
                        /\ d[1] \in DOMAIN c.result.exports
                        /\ c.result.exports[d[1]].kind = d[2]

\* a finished scan of the single file kinds.ts, which declares one export
\* of each kind, has returned six records
C11_Witness ==
    \E p \in DOMAIN calls :
        LET c == calls[p]
        IN  /\ Scanned(c) /\ Len(c.files) = 1 /\ Readable(c.files[1])
            /\ OneOfEachKind(readFile(c.files[1]).text)
            /\ Cardinality(DOMAIN c.result.exports) = 6

----------------------------------------------------------------------------
(* getLocalModulesMap.ts and verifyLocalPackage.ts: the installed packages *)
(* and the modules-map cache.                                              *)

\* getLocalModulesMap.ts:10   ttlMs: number = 5 * 60 * 1000
MODULES_TTL_MS == 5 * 60 * 1000

\* nodeModulesRootPath left out by the caller
NoPath == ""

\* the node_modules roots a caller names: the working directory's, or /alt
NodeModulesRootPaths == {NoPath, "/alt"}

\* react-core is installed under both node_modules roots, react-table under
\* the working directory only, not-installed nowhere
PackageNames == {"@patternfly/react-core", "@patternfly/react-table", "not-installed"}

\* dist/dynamic-modules.json of react-core under the working directory: Ghost
\* names a module no source file exports, Blank has an empty path
CoreModules ==
    [n \in {"Button", "Ghost", "Blank"} |->
        CASE n = "Button" -> "dist/dynamic/components/Button"
          [] n = "Ghost"  -> "dist/dynamic/components/Ghost"
          [] OTHER        -> ""]

\* dist/dynamic-modules.json of react-core under /alt
AltModules == [n \in {"MyClass"} |-> "dist/dynamic/components/MyClass"]

\* dist/dynamic-modules.json of react-table
TableModules == [n \in {"Table"} |-> "dist/dynamic/components/Table"]

\* { exists, version, packageRoot, error? } of verifyLocalPackage.ts:5-10
VerifyLocalPackageStatus(exists, packageRoot, error) ==
    [exists |-> exists, packageRoot |-> packageRoot, error |-> error]

\* what is on disk for a package name under a node_modules root: the status
\* package.json resolves to, and what reading dist/dynamic-modules.json gives
Installed(packageRoot, json) ==
    [status |-> VerifyLocalPackageStatus(TRUE, packageRoot, ""), json |-> json]

NotInstalled(packageName) ==
    [status |-> VerifyLocalPackageStatus(FALSE, "",
                    <<"Error resolving package \"", packageName, "\": ", "Cannot find module">>),
     json |-> [ok |-> FALSE, modulesMap |-> EmptyMap, error |-> "Error: ENOENT"]]

\* the installation; tableJson is what reading react-table's modules map gives
Installation(tableJson) ==
    [k \in PackageNames \X NodeModulesRootPaths |->
        CASE k = <<"@patternfly/react-core", NoPath>> ->
               Installed("/r1", [ok |-> TRUE, modulesMap |-> CoreModules, error |-> ""])
          [] k = <<"@patternfly/react-core", "/alt">> ->
               Installed("/r2", [ok |-> TRUE, modulesMap |-> AltModules, error |-> ""])
          [] k = <<"@patternfly/react-table", NoPath>> ->
               Installed("/r3", tableJson)
          [] OTHER -> NotInstalled(k[1])]

\* react-table's dist/dynamic-modules.json is readable, or it is missing
Installations ==
    {Installation([ok |-> TRUE, modulesMap |-> TableModules, error |-> ""]),
     Installation([ok |-> FALSE, modulesMap |-> EmptyMap,
                   error |-> "Error: ENOENT: no such file or directory"])}

\* verifyLocalPackage.ts:19-50 on installation nm
verifyLocalPackage(nm, packageName, nodeModulesRootPath) ==
    IF packageName = ""
    THEN VerifyLocalPackageStatus(FALSE, "", <<"Invalid package name: ", packageName>>)
    ELSE nm[<<packageName, nodeModulesRootPath>>].status

\* readJsonFile(`${packageRoot}/dist/dynamic-modules.json`) on installation nm
readJsonFile(nm, packageRoot) ==
    LET k == CHOOSE k \in DOMAIN nm : nm[k].status.packageRoot = packageRoot
    IN  nm[k].json

\* createCacheKey that leaves the package root out of the key
modulesCreateCacheKeyByName(packageName, packageRoot) == <<packageName>>

\* getLocalModulesMap.ts:34-36
modulesCreateCacheKey(packageName, packageRoot) ==
    IF packageRoot # "" THEN <<packageName, "::", packageRoot>> ELSE <<packageName>>

\* isCacheValid that takes an entry for valid at the instant it expires
modulesIsCacheValidInclusive(cacheEntry, t) == cacheEntry.expiresAt >= t

\* getLocalModulesMap.ts:6-8
modulesIsCacheValid(cacheEntry, t) == cacheEntry.expiresAt > t

\* getLocalModulesMap.ts:10-13
modulesSetCache(cache, cacheKey, modulesMap, t) ==
    MapSet(cache, cacheKey, [expiresAt |-> t + MODULES_TTL_MS, modulesMap |-> modulesMap])

\* getLocalModulesMap.ts:15-22 at clock time t: whether a map is returned, the
\* map, and the cache as the call leaves it (the key is deleted on a miss)
getCache(cache, cacheKey, t) ==
    IF cacheKey \in DOMAIN cache /\ modulesIsCacheValid(cache[cacheKey], t)
    THEN [hit |-> TRUE, modulesMap |-> cache[cacheKey].modulesMap, cache |-> cache]
    ELSE [hit |-> FALSE, modulesMap |-> EmptyMap, cache |-> MapDelete(cache, cacheKey)]

\* a call of getLocalModulesMap: it is idle, awaits verifyLocalPackage
\* ("verify"), awaits readJsonFile ("read"), has resolved ("done") or has
\* rejected ("failed"); verifies and jsonReads count the calls it has made
IdleModulesCall ==
    [pc |-> "idle", packageName |-> "", nodeModulesRootPath |-> NoPath,
     packageRoot |-> "", cacheKey |-> <<>>, modulesMap |-> EmptyMap, error |-> <<>>,
     verifies |-> 0, jsonReads |-> 0]

\* line 45
PackageNotFound(packageName, status) ==
    <<"Package \"", packageName, "\" not found locally. ", status.error>>

\* line 54
FailedToImport(packageName, error) ==
    <<"Failed to import modules map from package \"", packageName, "\": ", error,
      ". Does the modules map exist?">>

\* lines 39-42: the call starts and awaits verifyLocalPackage
ModulesBegin(p, packageName, nodeModulesRootPath) ==
    /\ mcalls[p].pc = "idle"
    /\ mcalls' = [mcalls EXCEPT ![p] =
           [IdleModulesCall EXCEPT !.pc = "verify", !.packageName = packageName,
                                   !.nodeModulesRootPath = nodeModulesRootPath,
                                   !.verifies = 1]]
    /\ UNCHANGED <<nodeModules, modulesCache>>

\* lines 42-52 and 24-29: verifyLocalPackage settles; a missing package
\* rejects the call, else the cache is read: a valid entry resolves the call,
\* otherwise the key is deleted and readJsonFile is awaited
ModulesVerified(p) ==
    LET c      == mcalls[p]
        status == verifyLocalPackage(nodeModules, c.packageName, c.nodeModulesRootPath)
        key    == modulesCreateCacheKey(c.packageName, status.packageRoot)
        cached == getCache(modulesCache, key, now)
    IN  /\ c.pc = "verify"
        /\ IF ~status.exists
           THEN /\ mcalls' = [mcalls EXCEPT ![p] =
                       [c EXCEPT !.pc = "failed",
                                 !.error = PackageNotFound(c.packageName, status)]]
                /\ UNCHANGED modulesCache
           ELSE /\ modulesCache' = cached.cache
                /\ mcalls' = [mcalls EXCEPT ![p] =
                       IF cached.hit
                       THEN [c EXCEPT !.pc = "done", !.packageRoot = status.packageRoot,
                                      !.cacheKey = key, !.modulesMap = cached.modulesMap]
                       ELSE [c EXCEPT !.pc = "read", !.packageRoot = status.packageRoot,
                                      !.cacheKey = key, !.jsonReads = 1]]
        /\ UNCHANGED nodeModules

\* ModulesRead that stores an empty map when the read fails
ModulesReadCachesFailure(p) ==
    LET c    == mcalls[p]
        json == readJsonFile(nodeModules, c.packageRoot)
    IN  /\ c.pc = "read"
        /\ modulesCache' = modulesSetCache(modulesCache, c.cacheKey, json.modulesMap, now)
        /\ mcalls' = [mcalls EXCEPT ![p] =
               IF json.ok
               THEN [c EXCEPT !.pc = "done", !.modulesMap = json.modulesMap]
               ELSE [c EXCEPT !.pc = "failed",
                              !.error = FailedToImport(c.packageName, json.error)]]
        /\ UNCHANGED nodeModules

\* lines 29-31 and 53-57: readJsonFile settles; the map is stored and
\* returned, or the call rejects
ModulesRead(p) ==
    LET c    == mcalls[p]
        json == readJsonFile(nodeModules, c.packageRoot)
    IN  /\ c.pc = "read"
        /\ IF json.ok
           THEN /\ modulesCache' = modulesSetCache(modulesCache, c.cacheKey, json.modulesMap, now)
                /\ mcalls' = [mcalls EXCEPT ![p] =
                       [c EXCEPT !.pc = "done", !.modulesMap = json.modulesMap]]
           ELSE /\ mcalls' = [mcalls EXCEPT ![p] =
                       [c EXCEPT !.pc = "failed",
                                 !.error = FailedToImport(c.packageName, json.error)]]
                /\ UNCHANGED modulesCache
        /\ UNCHANGED nodeModules

\* the caller takes the map or the rejection; its slot is free again
ModulesEnd(p) ==
    /\ mcalls[p].pc \in {"done", "failed"}
    /\ mcalls' = [mcalls EXCEPT ![p] = IdleModulesCall]
    /\ UNCHANGED <<nodeModules, modulesCache>>

\* the four steps as steps of a program that only calls getLocalModulesMap
GetLocalModulesMap(p, packageName, nodeModulesRootPath) ==
    /\ ModulesBegin(p, packageName, nodeModulesRootPath)
    /\ UNCHANGED <<clockVars, scannerVars, toolVars, fetchVars, jiraVars, otherVars>>

AwaitVerifyLocalPackage(p) ==
    /\ ModulesVerified(p)
    /\ UNCHANGED <<clockVars, scannerVars, toolVars, fetchVars, jiraVars, otherVars>>

AwaitReadJsonFile(p) ==
    /\ ModulesRead(p)
    /\ UNCHANGED <<clockVars, scannerVars, toolVars, fetchVars, jiraVars, otherVars>>

ModulesReturn(p) ==
    /\ ModulesEnd(p)
    /\ UNCHANGED <<clockVars, scannerVars, toolVars, fetchVars, jiraVars, otherVars>>

\* The initial states of the program that calls getLocalModulesMap: one
\* caller and a clock that advances MaxTicks times, or every caller and a
\* clock that advances once; the scanner is not in use.
ModulesEnvironments ==
    {[callers |-> {"p1"}, nodeModules |-> nm, ticksLeft |-> MaxTicks] : nm \in Installations}
        \cup {[callers |-> Procs, nodeModules |-> nm, ticksLeft |-> 1] : nm \in Installations}

InitModules ==
    /\ now = 0
    /\ modulesCache = EmptyMap
    /\ \E e \in ModulesEnvironments :
          /\ nodeModules = e.nodeModules
          /\ ticksLeft = e.ticksLeft
          /\ mcalls = [p \in e.callers |-> IdleModulesCall]
    /\ fs = EmptyMap /\ exportCache = EmptyMap /\ calls = EmptyMap
    /\ clearedExp = EmptyMap /\ storedSince = {}
    /\ tools = EmptyMap
    /\ fetchCache = EmptyMap /\ fcalls = EmptyMap
    /\ jcalls = EmptyMap
    /\ OthersIdle

NextModules ==
    \/ \E p \in DOMAIN mcalls, n \in PackageNames, r \in NodeModulesRootPaths :
          GetLocalModulesMap(p, n, r)
    \/ \E p \in DOMAIN mcalls : AwaitVerifyLocalPackage(p)
    \/ \E p \in DOMAIN mcalls : AwaitReadJsonFile(p)
    \/ \E p \in DOMAIN mcalls : ModulesReturn(p)
    \/ Tick

SpecModules == InitModules /\ [][NextModules]_vars

----------------------------------------------------------------------------
(* The getComponentSourceCode tool, getComponentSourceCode.ts:11-70.       *)

\* the value of an argument, with the type typeof gives for it
StringArg(value) == [type |-> "string", value |-> value]
UndefinedArg == [type |-> "undefined", value |-> ""]
NumberArg == [type |-> "number", value |-> "42"]

\* line 14: packageNameArg || '@patternfly/react-core'
DefaultPackageName(packageNameArg) ==
    IF packageNameArg = "" THEN "@patternfly/react-core" ELSE packageNameArg

\* the test of line 35 that only asks whether the map has the key
TruthyEntryHasKey(modulesMap, componentName) == componentName \in DOMAIN modulesMap

\* line 35: modulesMap[componentName] is truthy (a missing key gives
\* undefined, an empty string is falsy)
TruthyEntry(modulesMap, componentName) ==
    componentName \in DOMAIN modulesMap /\ modulesMap[componentName] # ""

\* what the tool call ends with: nothing yet, the CallToolResult with the
\* file's text, an McpError with its code, or a plain Error
NoOutcome == [kind |-> "none", code |-> "", message |-> <<>>]
McpError(code, message) == [kind |-> "McpError", code |-> code, message |-> message]
PlainError(message) == [kind |-> "Error", code |-> "", message |-> message]
CallToolResult(text) == [kind |-> "CallToolResult", code |-> "", message |-> <<text>>]

\* the steps of the tool in the order of the code
ToolSteps ==
    <<"typeof", "verifyLocalPackage", "getLocalModulesMap", "findExportSource",
      "readFileAsync">>

\* a call of the tool: idle, awaiting verifyLocalPackage ("verify"),
\* getLocalModulesMap ("modules"), findExportSource ("find") or readFileAsync
\* ("read"), resolved ("returned") or rejected ("thrown"); steps is the
\* history of the steps the call has started
IdleTool ==
    [pc |-> "idle", componentName |-> UndefinedArg, packageName |-> "",
     nodeModulesRootPath |-> NoPath, packageRoot |-> "",
     exportInfo |-> Undefined, content |-> [ok |-> FALSE, text |-> SourceFile(<<>>), error |-> ""],
     outcome |-> NoOutcome, steps |-> <<>>]

\* what readFileAsync(filePath) may give the tool: what the scanner was
\* given, or a rejection because the file was removed after it was indexed
ReadFileAsyncAnswers(filePath) ==
    {readFile(filePath),
     [ok |-> FALSE, text |-> SourceFile(<<>>),
      error |-> "Error: ENOENT: no such file or directory"]}

\* lines 12-24: the arguments are taken, componentName is tested, and
\* verifyLocalPackage is awaited
GetComponentSourceCode(p, componentName, packageNameArg, nodeModulesRootPath) ==
    LET packageName == DefaultPackageName(packageNameArg)
        base == [IdleTool EXCEPT !.componentName = componentName,
                                 !.packageName = packageName,
                                 !.nodeModulesRootPath = nodeModulesRootPath]
    IN  /\ tools[p].pc = "idle"
        /\ tools' = [tools EXCEPT ![p] =
               IF componentName.type # "string"
               THEN [base EXCEPT !.pc = "thrown", !.steps = <<"typeof">>,
                                 !.outcome = McpError("InvalidParams",
                                     <<"Missing required parameter: componentName (must be a string): ",
                                       componentName.value>>)]
               ELSE [base EXCEPT !.pc = "verify",
                                 !.steps = <<"typeof", "verifyLocalPackage">>]]
        /\ UNCHANGED <<clockVars, scannerVars, modulesVars, fetchVars, jiraVars, otherVars>>

\* lines 24-34: verifyLocalPackage settles; a missing package is an
\* InvalidParams error, else getLocalModulesMap is called and awaited
ToolVerified(p) ==
    LET t      == tools[p]
        status == verifyLocalPackage(nodeModules, t.packageName, t.nodeModulesRootPath)
    IN  /\ t.pc = "verify"
        /\ IF ~status.exists
           THEN /\ tools' = [tools EXCEPT ![p] =
                       [t EXCEPT !.pc = "thrown",
                                 !.outcome = McpError("InvalidParams",
                                     PackageNotFound(t.packageName, status))]]
                /\ UNCHANGED modulesVars
           ELSE /\ tools' = [tools EXCEPT ![p] =
                       [t EXCEPT !.pc = "modules", !.packageRoot = status.packageRoot,
                                 !.steps = Append(t.steps, "getLocalModulesMap")]]
                /\ ModulesBegin(p, t.packageName, t.nodeModulesRootPath)
        /\ UNCHANGED <<clockVars, scannerVars, fetchVars, jiraVars, otherVars>>

\* lines 34-43: getLocalModulesMap settles; its rejection rejects the tool
\* call as it is, a component without a truthy entry is an InvalidParams
\* error, else findExportSource is called and awaited
ToolModulesMap(p) ==
    LET t == tools[p]
        m == mcalls[p]
    IN  /\ t.pc = "modules"
        /\ m.pc \in {"done", "failed"}
        /\ ModulesEnd(p)
        /\ IF m.pc = "failed"
           THEN /\ tools' = [tools EXCEPT ![p] =
                       [t EXCEPT !.pc = "thrown", !.outcome = PlainError(m.error)]]
                /\ UNCHANGED <<clockVars, scannerVars>>
           ELSE IF ~TruthyEntry(m.modulesMap, t.componentName.value)
           THEN /\ tools' = [tools EXCEPT ![p] =
                       [t EXCEPT !.pc = "thrown",
                                 !.outcome = McpError("InvalidParams",
                                     <<"Component \"", t.componentName.value,
                                       "\" not found in available modules for package \"",
                                       t.packageName, "\".">>)]]
                /\ UNCHANGED <<clockVars, scannerVars>>
           ELSE /\ tools' = [tools EXCEPT ![p] =
                       [t EXCEPT !.pc = "find",
                                 !.steps = Append(t.steps, "findExportSource")]]
                /\ Begin(p, "find", t.packageRoot, t.componentName.value)
        /\ UNCHANGED <<fetchVars, jiraVars, otherVars>>

\* lines 43-54: findExportSource settles; no record is an InternalError, else
\* readFileAsync of the record's file is awaited
ToolExportInfo(p) ==
    LET t          == tools[p]
        exportInfo == calls[p].info
    IN  /\ t.pc = "find"
        /\ calls[p].pc = "done"
        /\ calls' = [calls EXCEPT ![p] = IdleCall]
        /\ tools' = [tools EXCEPT ![p] =
               IF exportInfo = Undefined
               THEN [t EXCEPT !.pc = "thrown",
                              !.outcome = McpError("InternalError",
                                  <<"Failed to find source file for component \"",
                                    t.componentName.value, "\" in package \"",
                                    t.packageName, "\".">>)]
               ELSE [t EXCEPT !.pc = "read", !.exportInfo = exportInfo,
                              !.steps = Append(t.steps, "readFileAsync")]]
        /\ UNCHANGED <<now, ticksLeft, fs, exportCache, clearedExp, storedSince>>
        /\ UNCHANGED <<modulesVars, fetchVars, jiraVars, otherVars>>

\* lines 53-69: readFileAsync settles; a rejection is an InternalError, else
\* the text is returned
ToolFileRead(p) ==
    LET t == tools[p]
    IN  /\ t.pc = "read"
        /\ \E content \in ReadFileAsyncAnswers(t.exportInfo.filePath) :
              tools' = [tools EXCEPT ![p] =
                  IF content.ok
                  THEN [t EXCEPT !.pc = "returned", !.content = content,
                                 !.outcome = CallToolResult(content.text)]
                  ELSE [t EXCEPT !.pc = "thrown", !.content = content,
                                 !.outcome = McpError("InternalError",
                                     <<"Failed to read source code file for component \"",
                                       t.componentName.value, "\": ", content.error>>)]]
        /\ UNCHANGED <<clockVars, scannerVars, modulesVars, fetchVars, jiraVars, otherVars>>

\* the MCP server takes the result or the error; the slot is free again
ToolReturn(p) ==
    /\ tools[p].pc \in {"returned", "thrown"}
    /\ tools' = [tools EXCEPT ![p] = IdleTool]
    /\ UNCHANGED <<clockVars, scannerVars, modulesVars, fetchVars, jiraVars, otherVars>>

\* the component names the tool is asked for
ComponentNames ==
    {StringArg(n) : n \in {"Button", "Ghost", "Blank", "DoesNotExist", "Table", "MyClass"}}
        \cup {UndefinedArg, NumberArg}

\* the packageName arguments: left out (""), or a package name
PackageNameArgs == {""} \cup PackageNames

\* the source directories of the installed packages: those of /r1 and /r2
\* as in BothRoots, and /r3 has no src directory
ToolFs ==
    [r \in Roots \cup {"/r3"} |->
        IF r \in Roots THEN BothRoots[r]
        ELSE [ok |-> FALSE, files |-> <<>>, error |-> "Error: ENOENT: no such directory"]]

\* The initial states of the MCP server that serves the tool to one client:
\* any installation, no cache entries, a clock that advances once.
InitTool ==
    /\ now = 0 /\ ticksLeft = 1
    /\ fs = ToolFs
    /\ exportCache = EmptyMap
    /\ calls = [p \in {"p1"} |-> IdleCall]
    /\ clearedExp = [r \in DOMAIN ToolFs |-> 0]
    /\ storedSince = {}
    /\ nodeModules \in Installations
    /\ modulesCache = EmptyMap
    /\ mcalls = [p \in {"p1"} |-> IdleModulesCall]
    /\ tools = [p \in {"p1"} |-> IdleTool]
    /\ fetchCache = EmptyMap /\ fcalls = EmptyMap
    /\ jcalls = EmptyMap
    /\ OthersIdle

NextTool ==
    \/ \E p \in DOMAIN tools, c \in ComponentNames, n \in PackageNameArgs,
          r \in NodeModulesRootPaths : GetComponentSourceCode(p, c, n, r)
    \/ \E p \in DOMAIN tools : ToolVerified(p)
    \/ \E p \in DOMAIN tools : AwaitVerifyLocalPackage(p)
    \/ \E p \in DOMAIN tools : AwaitReadJsonFile(p)
    \/ \E p \in DOMAIN tools : ToolModulesMap(p)
    \/ \E p \in DOMAIN tools : AwaitCollect(p)
    \/ \E p \in DOMAIN tools : AwaitRead(p)
    \/ \E p \in DOMAIN tools : ToolExportInfo(p)
    \/ \E p \in DOMAIN tools : ToolFileRead(p)
    \/ \E p \in DOMAIN tools : ToolReturn(p)
    \/ Tick

SpecTool == InitTool /\ [][NextTool]_vars

----------------------------------------------------------------------------
(* Reference definitions for the tool: the five checks, as the arguments   *)
(* of a call and what is on disk decide them.                              *)

\* what is installed under the names of tool call t
ToolPackage(t) == nodeModules[<<t.packageName, t.nodeModulesRootPath>>]

ComponentNameIsString(t) == t.componentName.type = "string"

PackageExists(t) == ToolPackage(t).status.exists

\* dist/dynamic-modules.json of the package can be read
ModulesMapLoads(t) == ToolPackage(t).json.ok

\* the modules map has a non-empty path for the component name
HasTruthyEntry(t) ==
    LET modulesMap == ToolPackage(t).json.modulesMap
    IN  /\ ModulesMapLoads(t)
        /\ t.componentName.value \in DOMAIN modulesMap
        /\ modulesMap[t.componentName.value] # ""

\* the index of the package's sources has a record for the component name
ExportSourceFound(t) ==
    t.componentName.value \in DOMAIN WholeIndex(ToolPackage(t).status.packageRoot)

\* the read of the record's file has succeeded
FileWasRead(t) == t.content.ok

\* the number of the first check of tool call t that does not hold, for a
\* call that has got as far as the file read; 0 when all five hold
FirstFailedCheck(t) ==
    CASE ~ComponentNameIsString(t) -> 1
      [] ComponentNameIsString(t) /\ ~PackageExists(t) -> 2
      [] ComponentNameIsString(t) /\ PackageExists(t) /\ ~HasTruthyEntry(t) -> 3
      [] ComponentNameIsString(t) /\ PackageExists(t) /\ HasTruthyEntry(t)
             /\ ~ExportSourceFound(t) -> 4
      [] ComponentNameIsString(t) /\ PackageExists(t) /\ HasTruthyEntry(t)
             /\ ExportSourceFound(t) /\ ~FileWasRead(t) -> 5
      [] OTHER -> 0

\* the steps a call has started are the first steps of the fixed order, and
\* a call that has ended started no step after the one of check k
RanUpTo(t, k) == t.steps = SubSeq(ToolSteps, 1, k)

InFixedOrder(t) == \E k \in 0..Len(ToolSteps) : RanUpTo(t, k)

----------------------------------------------------------------------------
(* Reference definitions for the modules-map cache.                        *)

\* the cache key of a call: packageName::packageRoot, with the root the
\* package is installed at
PackageKey(c) ==
    <<c.packageName, "::",
      nodeModules[<<c.packageName, c.nodeModulesRootPath>>].status.packageRoot>>

\* the step in which caller p's call starts
ModulesBeginStep(p) == mcalls[p].pc = "idle" /\ mcalls'[p].pc # "idle"

\* the step in which caller p's call, its package verified, reads the cache
CacheReadStep(p) == mcalls[p].pc = "verify" /\ mcalls'[p].pc \in {"read", "done"}

\* the step in which caller p's call stores the map it has read
CacheStoreStep(p) == mcalls[p].pc = "read" /\ mcalls'[p].pc = "done"

(* C13: every call invokes verifyLocalPackage; a call reads                *)
(* dist/dynamic-modules.json exactly when the cache holds no entry for     *)
(* packageName::packageRoot with expiresAt > now, and else resolves to the *)
(* cached map and leaves the cache as it is; a call that reads the file    *)
(* stores a new entry that expires 300000 ms later; no step of a call      *)
(* touches the entry of another key.                                       *)
C13_Step ==
    \A p \in DOMAIN mcalls :
        LET c   == mcalls[p]
            d   == mcalls'[p]
            key == PackageKey(d)
        IN  /\ ModulesBeginStep(p) =>
                  d.pc = "verify" /\ d.verifies = 1 /\ d.jsonReads = 0
            /\ d.pc # "idle" => d.verifies = 1
            /\ CacheReadStep(p) =>
                  IF key \in DOMAIN modulesCache /\ modulesCache[key].expiresAt > now
                  THEN /\ d.pc = "done" /\ d.jsonReads = 0
                       /\ d.modulesMap = modulesCache[key].modulesMap
                       /\ modulesCache' = modulesCache
                  ELSE /\ d.pc = "read" /\ d.jsonReads = 1
                       /\ modulesCache' = WithoutEntry(modulesCache, key)
            /\ CacheStoreStep(p) =>
                  /\ d.jsonReads = 1
                  /\ modulesCache' = WithEntry(modulesCache, key,
                         [expiresAt |-> now + 300000, modulesMap |-> d.modulesMap])
            /\ (d # c /\ d.pc # "idle") =>
                  \A k \in (DOMAIN modulesCache \cup DOMAIN modulesCache') \ {key} :
                      /\ k \in DOMAIN modulesCache /\ k \in DOMAIN modulesCache'
                      /\ modulesCache'[k] = modulesCache[k]

\* C13: every step of every behaviour is a C13_Step (the modules map is read
\* from disk only when no unexpired entry of the package's key is cached)
C13_ReadOnlyWhenNotCached == [][C13_Step]_vars

\* a call has resolved from the cache, without reading the file, after the
\* clock has advanced, while the entries of two packages are cached
C13_Witness ==
    \E p \in DOMAIN mcalls :
        LET c == mcalls[p]
        IN  /\ c.pc = "done" /\ c.verifies = 1 /\ c.jsonReads = 0
            /\ now > 0 /\ now < modulesCache[c.cacheKey].expiresAt
            /\ Cardinality(DOMAIN modulesCache) = 2

(* C14: the calls for one package that have resolved have all resolved to  *)
(* the same modules map, and once none of the calls for the package is     *)
(* still reading the file the cache holds exactly one entry for the        *)
(* package, with that map.                                                 *)
C14_ConcurrentCallsAgree ==
    \A p \in DOMAIN mcalls :
        LET c == mcalls[p]
            sameKey == {q \in DOMAIN mcalls :
                           /\ mcalls[q].packageName = c.packageName
                           /\ mcalls[q].nodeModulesRootPath = c.nodeModulesRootPath}
        IN  c.pc = "done" =>
                /\ \A q \in sameKey :
                      mcalls[q].pc = "done" => mcalls[q].modulesMap = c.modulesMap
                /\ (\A q \in sameKey : mcalls[q].pc # "read") =>
                      /\ Cardinality({k \in DOMAIN modulesCache :
                             /\ k[1] = c.packageName
                             /\ (Len(k) = 3 => k[3] = c.packageRoot)}) = 1
                      /\ PackageKey(c) \in DOMAIN modulesCache
                      /\ modulesCache[PackageKey(c)].modulesMap = c.modulesMap

\* two calls for the same package have both missed the cache, both read the
\* file and both stored, and the cache holds one entry
C14_Witness ==
    \E p, q \in DOMAIN mcalls :
        /\ p # q
        /\ mcalls[p].pc = "done" /\ mcalls[q].pc = "done"
        /\ mcalls[p].cacheKey = mcalls[q].cacheKey
        /\ mcalls[p].jsonReads = 1 /\ mcalls[q].jsonReads = 1
        /\ mcalls[p].modulesMap = mcalls[q].modulesMap
        /\ DOMAIN modulesCache = {mcalls[p].cacheKey}

----------------------------------------------------------------------------
(* cachedFetch.ts.                                                         *)

\* the options argument: left out, an object whose headers are a plain
\* object, or an object whose headers are a Headers instance
NoOptions == [kind |-> "undefined", authorization |-> ""]
PlainHeaders(authorization) == [kind |-> "plain", authorization |-> authorization]
HeadersInstance(authorization) == [kind |-> "Headers", authorization |-> authorization]

\* JSON.stringify(options) inside the template literal of line 4: undefined
\* gives "undefined"; a plain headers object is written out; a Headers
\* instance has no enumerable own property and is written as {}
JSONstringify(options) ==
    CASE options.kind = "undefined" -> <<"undefined">>
      [] options.kind = "plain" ->
             <<"{\"headers\":{\"Authorization\":\"", options.authorization, "\"}}">>
      [] OTHER -> <<"{\"headers\":{}}">>

\* a key made of the url alone
fetchCacheKeyUrlOnly(url, options) == <<url>>

\* line 4: `${url}:${JSON.stringify(options)}`
fetchCacheKey(url, options) == <<url, ":">> \o JSONstringify(options)

\* what the network gives for a request: a rejection of fetch, a response
\* that is not ok, or an ok response whose body is text or JSON; the body
\* depends on the url and the Authorization sent, and the server may change
\* it (v1, v2); a JSON body may fail to parse
Responses(url, options) ==
    {[settled |-> "rejected", ok |-> FALSE, json |-> FALSE, bodyOk |-> FALSE,
      body |-> <<>>, error |-> "fetch failed"],
     [settled |-> "resolved", ok |-> FALSE, json |-> FALSE, bodyOk |-> FALSE,
      body |-> <<>>, error |-> "Network response was not ok: 500 Internal Server Error"],
     [settled |-> "resolved", ok |-> TRUE, json |-> TRUE, bodyOk |-> FALSE,
      body |-> <<>>, error |-> "Unexpected token in JSON"]}
        \cup {[settled |-> "resolved", ok |-> TRUE, json |-> j, bodyOk |-> TRUE,
               body |-> <<url, options.authorization, v>>, error |-> ""] :
                 j \in BOOLEAN, v \in {"v1", "v2"}}

\* a call of cachedFetch: idle, awaiting fetch ("fetch"), awaiting
\* resp.json() / resp.text() ("body"), resolved ("done") or rejected
\* ("failed"); requests counts the network requests the call has issued
IdleFetch ==
    [pc |-> "idle", url |-> "", options |-> NoOptions, cacheKey |-> <<>>,
     resp |-> [settled |-> "", ok |-> FALSE, json |-> FALSE, bodyOk |-> FALSE,
               body |-> <<>>, error |-> ""],
     value |-> <<>>, error |-> <<>>, requests |-> 0]

\* line 26
FetchFailed(url, message) == <<"Fetch failed for ", url, ": ", message>>

\* lines 3-11: a cached value is returned, else fetch is called and awaited
CachedFetch(p, url, options) ==
    LET cacheKey == fetchCacheKey(url, options)
        base     == [IdleFetch EXCEPT !.url = url, !.options = options,
                                      !.cacheKey = cacheKey]
    IN  /\ fcalls[p].pc = "idle"
        /\ fcalls' = [fcalls EXCEPT ![p] =
               IF cacheKey \in DOMAIN fetchCache
               THEN [base EXCEPT !.pc = "done", !.value = fetchCache[cacheKey]]
               ELSE [base EXCEPT !.pc = "fetch", !.requests = 1]]
        /\ UNCHANGED fetchCache
        /\ UNCHANGED <<clockVars, scannerVars, modulesVars, toolVars, jiraVars, otherVars>>

\* lines 11-22 and 25-27: fetch settles; a rejection and a response that is
\* not ok reject the call, else the body is awaited
AwaitFetch(p) ==
    LET c == fcalls[p]
    IN  /\ c.pc = "fetch"
        /\ \E resp \in Responses(c.url, c.options) :
              fcalls' = [fcalls EXCEPT ![p] =
                  IF resp.settled = "rejected" \/ ~resp.ok
                  THEN [c EXCEPT !.pc = "failed", !.resp = resp,
                                 !.error = FetchFailed(c.url, resp.error)]
                  ELSE [c EXCEPT !.pc = "body", !.resp = resp]]
        /\ UNCHANGED fetchCache
        /\ UNCHANGED <<clockVars, scannerVars, modulesVars, toolVars, jiraVars, otherVars>>

\* lines 17-19 and 22-27: the body settles; it is stored and returned, or
\* its rejection rejects the call
AwaitBody(p) ==
    LET c == fcalls[p]
    IN  /\ c.pc = "body"
        /\ IF c.resp.bodyOk
           THEN /\ fetchCache' = MapSet(fetchCache, c.cacheKey, c.resp.body)
                /\ fcalls' = [fcalls EXCEPT ![p] =
                       [c EXCEPT !.pc = "done", !.value = c.resp.body]]
           ELSE /\ fcalls' = [fcalls EXCEPT ![p] =
                       [c EXCEPT !.pc = "failed",
                                 !.error = FetchFailed(c.url, c.resp.error)]]
                /\ UNCHANGED fetchCache
        /\ UNCHANGED <<clockVars, scannerVars, modulesVars, toolVars, jiraVars, otherVars>>

\* the caller takes the value or the rejection; its slot is free again
FetchReturn(p) ==
    /\ fcalls[p].pc \in {"done", "failed"}
    /\ fcalls' = [fcalls EXCEPT ![p] = IdleFetch]
    /\ UNCHANGED fetchCache
    /\ UNCHANGED <<clockVars, scannerVars, modulesVars, toolVars, jiraVars, otherVars>>

Urls == {"https://example.com/cache-test-1", "https://example.com/cache-test-2"}

FetchOptions ==
    {NoOptions, PlainHeaders("Bearer test"),
     HeadersInstance("Bearer a"), HeadersInstance("Bearer b")}

\* the requests the callers make: one caller asks for both urls, with no
\* options or with a Headers instance; several callers ask for one url with
\* any of the options
FetchRequests(callers) ==
    IF Cardinality(callers) = 1
    THEN Urls \X {NoOptions, HeadersInstance("Bearer a")}
    ELSE {"https://example.com/cache-test-1"} \X FetchOptions

\* The initial states of a program that calls cachedFetch: an empty cache,
\* and one caller or every caller; cachedFetch does not read the clock.
InitFetch ==
    /\ now = 0 /\ ticksLeft = 0
    /\ fetchCache = EmptyMap
    /\ fcalls \in {[p \in {"p1"} |-> IdleFetch], [p \in Procs |-> IdleFetch]}
    /\ fs = EmptyMap /\ exportCache = EmptyMap /\ calls = EmptyMap
    /\ clearedExp = EmptyMap /\ storedSince = {}
    /\ nodeModules = EmptyMap /\ modulesCache = EmptyMap /\ mcalls = EmptyMap
    /\ tools = EmptyMap
    /\ jcalls = EmptyMap
    /\ OthersIdle

NextFetch ==
    \/ \E p \in DOMAIN fcalls, r \in FetchRequests(DOMAIN fcalls) :
          CachedFetch(p, r[1], r[2])
    \/ \E p \in DOMAIN fcalls : AwaitFetch(p)
    \/ \E p \in DOMAIN fcalls : AwaitBody(p)
    \/ \E p \in DOMAIN fcalls : FetchReturn(p)

SpecFetch == InitFetch /\ [][NextFetch]_vars

----------------------------------------------------------------------------
(* Reference definitions for cachedFetch.                                  *)

\* the url and the serialized options of a call
RequestKey(c) == <<c.url, ":">> \o JSONstringify(c.options)

FetchBeginStep(p) == fcalls[p].pc = "idle" /\ fcalls'[p].pc # "idle"

FetchStoreStep(p) == fcalls[p].pc = "body" /\ fcalls'[p].pc = "done"

(* the steps of C15: a call that starts while an entry is stored for its   *)
(* url and serialized options returns the stored value and issues no       *)
(* request, else it issues one; a call that succeeds stores its value      *)
(* under its url and serialized options; no other step changes the cache,  *)
(* and no step removes an entry or changes the entry of another key.       *)
C15_Step ==
    /\ \A k \in DOMAIN fetchCache : k \in DOMAIN fetchCache'
    /\ (\A p \in DOMAIN fcalls : ~FetchStoreStep(p)) => fetchCache' = fetchCache
    /\ \A p \in DOMAIN fcalls :
          LET d   == fcalls'[p]
              key == RequestKey(d)
          IN  /\ FetchBeginStep(p) =>
                    IF key \in DOMAIN fetchCache
                    THEN d.pc = "done" /\ d.value = fetchCache[key] /\ d.requests = 0
                    ELSE d.pc = "fetch" /\ d.requests = 1
              /\ FetchStoreStep(p) =>
                    fetchCache' = WithEntry(fetchCache, key, d.value)

\* calls with different urls or differently serialized options use
\* different keys
C15_Inv ==
    \A p, q \in DOMAIN fcalls :
        LET c == fcalls[p]
            d == fcalls[q]
        IN  (c.pc # "idle" /\ d.pc # "idle"
                /\ (c.url # d.url \/ JSONstringify(c.options) # JSONstringify(d.options))) =>
                    c.cacheKey # d.cacheKey

(* C15: calls of cachedFetch with a different url or different options use *)
(* separate cache entries.                                                 *)
C15_SeparateEntriesPerOptions ==
    \A p, q \in DOMAIN fcalls :
        LET c == fcalls[p]
            d == fcalls[q]
        IN  (c.pc # "idle" /\ d.pc # "idle"
                /\ (c.url # d.url \/ c.options # d.options)) =>
                    c.cacheKey # d.cacheKey

(* What holds of cachedFetch: once a call has succeeded, every later call   *)
(* with the same url and the same serialized options returns the stored    *)
(* value without a network request, with no expiry; calls with a different *)
(* url or with options that JSON.stringify serializes differently use      *)
(* separate entries and never change each other's entry.                   *)
C15_CachedWithoutExpiry == []C15_Inv /\ [][C15_Step]_vars

\* a call has returned a stored value without a request while the cache
\* holds entries of two keys
C15_Witness ==
    \E p \in DOMAIN fcalls :
        LET c == fcalls[p]
        IN  /\ c.pc = "done" /\ c.requests = 0
            /\ c.value = fetchCache[c.cacheKey]
            /\ Cardinality(DOMAIN fetchCache) >= 2

----------------------------------------------------------------------------
(* The search_jira_issues handler, hcc-jira-mcp getIssue.ts:16-132.        *)

\* getIssue.ts:18   maxResults = 50
DEFAULT_MAX_RESULTS == 50
\* getIssue.ts:21   Math.min(maxResults, 100)
MAX_RESULTS_LIMIT == 100

\* the args of a call: undefined, or { jql, maxResults? }
NoArgs == [defined |-> FALSE, jql |-> "", hasMaxResults |-> FALSE, maxResults |-> 0]
SearchArgs(jql) ==
    [defined |-> TRUE, jql |-> jql, hasMaxResults |-> FALSE, maxResults |-> 0]
SearchArgsMax(jql, maxResults) ==
    [defined |-> TRUE, jql |-> jql, hasMaxResults |-> TRUE, maxResults |-> maxResults]

\* Math.max in the place of Math.min
MathMax(a, b) == IF a > b THEN a ELSE b

MathMin(a, b) == IF a < b THEN a ELSE b

\* encodeURIComponent on the queries of the model
encodeURIComponent(jql) ==
    CASE jql = "project=RHCLOUD" -> "project%3DRHCLOUD"
      [] jql = "assignee=currentUser() AND status=Open" ->
             "assignee%3DcurrentUser()%20AND%20status%3DOpen"
      [] OTHER -> jql

\* lines 18-24: the request the handler sends
SearchUrl(args) ==
    LET maxResults == IF args.hasMaxResults THEN args.maxResults ELSE DEFAULT_MAX_RESULTS
        limit      == MathMin(maxResults, MAX_RESULTS_LIMIT)
    IN  [path |-> "/rest/api/2/search", jql |-> encodeURIComponent(args.jql),
         maxResults |-> limit]

NoUrl == [path |-> "", jql |-> "", maxResults |-> 0]

\* the return value of the handler: { content: [{type: 'text', text}] } with
\* isError true or left out; or, if the handler rejected, what it threw
ToolResult(text, isError) == [kind |-> "result", text |-> text, isError |-> isError]
Thrown(error) == [kind |-> "thrown", text |-> <<error>>, isError |-> "undefined"]
NoToolResult == [kind |-> "none", text |-> <<>>, isError |-> "undefined"]

\* a catch clause that throws the error on
CaughtRethrown(error) == Thrown(error)

\* lines 121-131: the catch clause
Caught(error) == ToolResult(<<"Error searching JIRA issues: ", error>>, "true")

\* what the JIRA server's answer parses to: issues is missing, or a list of
\* issues, each well-formed ("ok") or null
SearchResults ==
    {[hasIssues |-> FALSE, issues |-> <<>>, total |-> 0],
     [hasIssues |-> TRUE, issues |-> <<>>, total |-> 0],
     [hasIssues |-> TRUE, issues |-> <<"ok">>, total |-> 1],
     [hasIssues |-> TRUE, issues |-> <<"ok", "ok">>, total |-> 7],
     [hasIssues |-> TRUE, issues |-> <<"null">>, total |-> 1],
     [hasIssues |-> TRUE, issues |-> <<"ok", "null">>, total |-> 2]}

\* what fetch gives: a rejection, or a response that is ok or not; then what
\* response.text() / response.json() gives: a rejection, or the value
FetchAnswers ==
    {[settled |-> "rejected", ok |-> FALSE, error |-> "Network error"],
     [settled |-> "resolved", ok |-> FALSE, error |-> ""],
     [settled |-> "resolved", ok |-> TRUE, error |-> ""]}

TextAnswers ==
    {[settled |-> "rejected", text |-> "", error |-> "body stream already read"],
     [settled |-> "resolved", text |-> "Unauthorized", error |-> ""]}

JsonAnswers ==
    {[settled |-> "rejected", value |-> [hasIssues |-> FALSE, issues |-> <<>>, total |-> 0],
      error |-> "Unexpected token < in JSON"]}
        \cup {[settled |-> "resolved", value |-> v, error |-> ""] : v \in SearchResults}

\* lines 61-120: the formatted text, or the TypeError of reading a property
\* of an issue that is null
FormatIssues(jql, searchResult) ==
    IF \E i \in 1..Len(searchResult.issues) : searchResult.issues[i] = "null"
    THEN [threw |-> TRUE, text |-> <<>>,
          error |-> "Cannot read properties of null"]
    ELSE [threw |-> FALSE,
          text |-> <<"# JIRA Search Results", jql, searchResult.total,
                     IF Len(searchResult.issues) = 1 THEN "details" ELSE "table",
                     Len(searchResult.issues)>>,
          error |-> ""]

\* a call of the handler: idle, awaiting fetch ("fetch"), response.text()
\* ("text") or response.json() ("json"), or ended ("done"); sent is the
\* request it has sent, raised what went wrong on the way
IdleJira ==
    [pc |-> "idle", args |-> NoArgs, sent |-> NoUrl, requests |-> 0,
     raised |-> "none", empty |-> FALSE, outcome |-> NoToolResult]

\* lines 16-32: the arguments are taken (undefined args make the
\* destructuring throw) and the request is sent
SearchJiraIssues(p, args) ==
    /\ jcalls[p].pc = "idle"
    /\ jcalls' = [jcalls EXCEPT ![p] =
           IF ~args.defined
           THEN [IdleJira EXCEPT !.pc = "done", !.args = args, !.raised = "exception",
                     !.outcome = Caught("Cannot destructure property 'jql' of 'args'")]
           ELSE [IdleJira EXCEPT !.pc = "fetch", !.args = args,
                     !.sent = SearchUrl(args), !.requests = 1]]
    /\ UNCHANGED <<clockVars, scannerVars, modulesVars, toolVars, fetchVars, otherVars>>

\* lines 25-47: fetch settles
AwaitJiraFetch(p) ==
    LET c == jcalls[p]
    IN  /\ c.pc = "fetch"
        /\ \E response \in FetchAnswers :
              jcalls' = [jcalls EXCEPT ![p] =
                  IF response.settled = "rejected"
                  THEN [c EXCEPT !.pc = "done", !.raised = "exception",
                                 !.outcome = Caught(response.error)]
                  ELSE IF ~response.ok
                  THEN [c EXCEPT !.pc = "text", !.raised = "not ok"]
                  ELSE [c EXCEPT !.pc = "json"]]
        /\ UNCHANGED <<clockVars, scannerVars, modulesVars, toolVars, fetchVars, otherVars>>

\* lines 35-45: response.text() of a response that is not ok settles
AwaitJiraText(p) ==
    LET c == jcalls[p]
    IN  /\ c.pc = "text"
        /\ \E errorText \in TextAnswers :
              jcalls' = [jcalls EXCEPT ![p] =
                  IF errorText.settled = "rejected"
                  THEN [c EXCEPT !.pc = "done", !.raised = "exception",
                                 !.outcome = Caught(errorText.error)]
                  ELSE [c EXCEPT !.pc = "done",
                                 !.outcome = ToolResult(
                                     <<"Failed to search JIRA issues: ", "401 Unauthorized",
                                       errorText.text>>, "true")]]
        /\ UNCHANGED <<clockVars, scannerVars, modulesVars, toolVars, fetchVars, otherVars>>

\* lines 47-120: response.json() settles; no issues is a normal result, else
\* the issues are formatted
AwaitJiraJson(p) ==
    LET c == jcalls[p]
    IN  /\ c.pc = "json"
        /\ \E searchResult \in JsonAnswers :
              LET formatted == FormatIssues(c.args.jql, searchResult.value)
              IN  jcalls' = [jcalls EXCEPT ![p] =
                      IF searchResult.settled = "rejected"
                      THEN [c EXCEPT !.pc = "done", !.raised = "exception",
                                     !.outcome = Caught(searchResult.error)]
                      ELSE IF ~searchResult.value.hasIssues
                                 \/ Len(searchResult.value.issues) = 0
                      THEN [c EXCEPT !.pc = "done", !.empty = TRUE,
                                     !.outcome = ToolResult(
                                         <<"No issues found for JQL query: ", c.args.jql>>,
                                         "undefined")]
                      ELSE IF formatted.threw
                      THEN [c EXCEPT !.pc = "done", !.raised = "exception",
                                     !.outcome = Caught(formatted.error)]
                      ELSE [c EXCEPT !.pc = "done",
                                     !.outcome = ToolResult(formatted.text, "undefined")]]
        /\ UNCHANGED <<clockVars, scannerVars, modulesVars, toolVars, fetchVars, otherVars>>

\* the MCP server takes the result; the slot is free again
JiraReturn(p) ==
    /\ jcalls[p].pc = "done"
    /\ jcalls' = [jcalls EXCEPT ![p] = IdleJira]
    /\ UNCHANGED <<clockVars, scannerVars, modulesVars, toolVars, fetchVars, otherVars>>

Queries == {"project=RHCLOUD", "assignee=currentUser() AND status=Open"}

\* the maxResults values asked for: below, at and above the default and the
\* limit
MaxResultsArgs == {-1, 0, 1, 25, 49, 50, 51, 99, 100, 101, 500}

JiraArgs ==
    {NoArgs} \cup {SearchArgs(q) : q \in Queries}
        \cup {SearchArgsMax(q, n) : q \in Queries, n \in MaxResultsArgs}

InitJira ==
    /\ now = 0 /\ ticksLeft = 0
    /\ jcalls = [p \in {"p1"} |-> IdleJira]
    /\ fs = EmptyMap /\ exportCache = EmptyMap /\ calls = EmptyMap
    /\ clearedExp = EmptyMap /\ storedSince = {}
    /\ nodeModules = EmptyMap /\ modulesCache = EmptyMap /\ mcalls = EmptyMap
    /\ tools = EmptyMap
    /\ fetchCache = EmptyMap /\ fcalls = EmptyMap
    /\ OthersIdle

NextJira ==
    \/ \E p \in DOMAIN jcalls, a \in JiraArgs : SearchJiraIssues(p, a)
    \/ \E p \in DOMAIN jcalls : AwaitJiraFetch(p)
    \/ \E p \in DOMAIN jcalls : AwaitJiraText(p)
    \/ \E p \in DOMAIN jcalls : AwaitJiraJson(p)
    \/ \E p \in DOMAIN jcalls : JiraReturn(p)

SpecJira == InitJira /\ [][NextJira]_vars

(* C16: the handler never throws; a call that got a response that was not  *)
(* ok, or in which an exception was raised while fetching or formatting,   *)
(* returns a result with isError true, and a call whose search found no    *)
(* issue returns a normal result without isError.                          *)
C16_NeverThrows ==
    \A p \in DOMAIN jcalls :
        LET c == jcalls[p]
        IN  /\ c.outcome.kind # "thrown"
            /\ c.pc = "done" =>
                  /\ c.outcome.kind = "result"
                  /\ c.raised \in {"not ok", "exception"} => c.outcome.isError = "true"
                  /\ c.raised = "none" => c.outcome.isError = "undefined"
                  /\ c.empty =>
                        /\ c.raised = "none"
                        /\ c.outcome = ToolResult(
                               <<"No issues found for JQL query: ", c.args.jql>>, "undefined")

\* a call in which formatting raised an exception, after an ok response
\* with issues, has returned a result with isError true
C16_Witness ==
    \E p \in DOMAIN jcalls :
        LET c == jcalls[p]
        IN  /\ c.pc = "done" /\ c.requests = 1 /\ c.raised = "exception"
            /\ c.outcome = ToolResult(
                   <<"Error searching JIRA issues: ", "Cannot read properties of null">>, "true")

(* C17: the maxResults sent to JIRA is min(maxResults, 100), with           *)
(* maxResults taken as 50 when left out; it is never more than 100.        *)
C17_MaxResultsCapped ==
    \A p \in DOMAIN jcalls :
        LET c == jcalls[p]
            asked == IF c.args.hasMaxResults THEN c.args.maxResults ELSE 50
        IN  c.requests = 1 =>
                /\ c.sent.maxResults = (IF asked <= 100 THEN asked ELSE 100)
                /\ c.sent.maxResults <= 100

\* a request has been sent with maxResults 100 for a call that asked for more
C17_Witness ==
    \E p \in DOMAIN jcalls :
        /\ jcalls[p].requests = 1
        /\ jcalls[p].args.hasMaxResults /\ jcalls[p].args.maxResults > 100
        /\ jcalls[p].sent.maxResults = 100

----------------------------------------------------------------------------
(* Reference definitions for the rule by which records replace each other. *)

\* the rule of replacement: a new record replaces the held one, except when
\* the held record is a non-reexport and the new one is a reexport
ReplaceUnlessDefinitionHeld(exports, exportInfo) ==
    LET held == MapGet(exports, exportInfo.name)
    IN  IF held # Undefined /\ held.kind # "reexport" /\ exportInfo.kind = "reexport"
        THEN exports
        ELSE MapSet(exports, exportInfo.name, exportInfo)

\* the index that rule leaves of the records of a listing, in processing order
RECURSIVE IndexByReplacement(_, _)
IndexByReplacement(exports, records) ==
    IF records = <<>> THEN exports
    ELSE IndexByReplacement(ReplaceUnlessDefinitionHeld(exports, Head(records)),
                            Tail(records))

\* the records of a listing in processing order
ListingRecords(files) == Concat([i \in 1..Len(files) |-> FileRecords(files[i])])

(* C18: the index a scan returns is the one left when every newly parsed   *)
(* record replaces the record held for its name, except a reexport that    *)
(* meets a held non-reexport; of two non-reexport records for a name, and  *)
(* of two reexport records, the later one in processing order is left.     *)
C18_LaterRecordReplaces ==
    \A p \in DOMAIN calls :
        LET c == calls[p]
        IN  Scanned(c) =>
                c.result.exports = IndexByReplacement(EmptyMap, ListingRecords(c.files))

(* C19: a cache entry for a root is created only by a scan of the root     *)
(* that succeeded: a root whose source collection fails has no entry.      *)
C19_NoEntryAfterFailedCollection ==
    \A r \in DOMAIN fs :
        ~fs[r].ok => createCacheKey(r) \notin DOMAIN exportCache

----------------------------------------------------------------------------
(* Progress of a scan.  The glob and every readFile a scan awaits settle,  *)
(* and the event loop then runs the scan's continuation: the await steps   *)
(* of a call are taken when they stay enabled.  Nothing obliges a caller   *)
(* to start a call, to take its result, or to clear the cache.             *)
ScansProgress ==
    \A p \in Procs : WF_vars(AwaitCollect(p)) /\ WF_vars(AwaitRead(p))

\* the concurrent environment: every caller, both roots, a clock that stands
InitFair ==
    /\ now = 0 /\ ticksLeft = 0
    /\ fs = BothRoots
    /\ exportCache = EmptyMap
    /\ calls = [p \in Procs |-> IdleCall]
    /\ clearedExp = [r \in Roots |-> 0]
    /\ storedSince = {}
    /\ nodeModules = EmptyMap /\ modulesCache = EmptyMap /\ mcalls = EmptyMap
    /\ tools = EmptyMap
    /\ fetchCache = EmptyMap /\ fcalls = EmptyMap
    /\ jcalls = EmptyMap
    /\ OthersIdle

NextFair ==
    \/ \E p \in Procs, r \in Roots : ScanPackageExports(p, r)
    \/ \E p \in Procs, r \in Roots, n \in ExportNames : FindExportSource(p, r, n)
    \/ \E p \in Procs : AwaitCollect(p)
    \/ \E p \in Procs : AwaitRead(p)
    \/ \E p \in Procs : Return(p)
    \/ ClearExportCache

SpecFair == InitFair /\ [][NextFair]_vars /\ ScansProgress

\* caller p has a scan in flight
Scanning(p) == calls[p].pc \in {"collect", "read"}

\* caller p's scan has ended: it has read each file of the listing once, and
\* its result is the entry stored for its root
ScanStored(p) ==
    LET c == calls[p]
    IN  /\ c.pc = "done" /\ c.globs = 1
        /\ c.files = Listed(c.packageRoot)
        /\ c.reads = Len(c.files) /\ (c.files # <<>> => c.i = Len(c.files))
        /\ createCacheKey(c.packageRoot) \in DOMAIN exportCache
        /\ exportCache[createCacheKey(c.packageRoot)].result = c.result
        /\ c.result = WholeScan(c.packageRoot)

\* a scan in flight stays in flight, on the same root and the same listing,
\* one file further at most, until it ends; no step of another call, of
\* clearExportCache or of the clock changes it
C20_Step ==
    \A p \in DOMAIN calls :
        LET c == calls[p]
            d == calls'[p]
        IN  Scanning(p) =>
                /\ d.pc \in {"collect", "read", "done"}
                /\ d.packageRoot = c.packageRoot /\ d.op = c.op
                /\ c.pc = "read" =>
                      /\ d.files = c.files
                      /\ d.pc = "read" => d.i \in {c.i, c.i + 1} /\ d.reads = d.i
                      /\ d.pc = "done" =>
                            /\ c.i = Len(c.files) /\ d.reads = Len(c.files)
                            /\ exportCache' = WithEntry(exportCache,
                                   <<"exports::", c.packageRoot>>,
                                   [expiresAt |-> now + CACHE_TTL_MS, result |-> d.result])

(* C20: every started scan ends, having read each collected file exactly   *)
(* once, and stores its result in the cache for its root in the step in    *)
(* which it ends; no clearExportCache and no other scan cancels it.        *)
C20_ScanRunsToCompletion ==
    /\ [][C20_Step]_vars
    /\ \A p \in Procs : Scanning(p) ~> ScanStored(p)

\* a scan has ended and stored its result although the cache was cleared
\* while it was in flight, and another scan is still in flight
C20_Witness ==
    \E p, q \in DOMAIN calls :
        /\ p # q
        /\ ScanStored(p) /\ calls[p].reads = 2
        /\ calls[p].packageRoot \in storedSince
        /\ Scanning(q)

----------------------------------------------------------------------------
\* the step in which caller p starts a call that finds no entry of its root,
\* or an expired one
MissStep(p) ==
    /\ BeginStep(p)
    /\ EntryState(exportCache, calls'[p].packageRoot, now) # "fresh"

\* every call that misses the cache runs its own glob and its own reads of
\* every listed file, whatever the other callers are doing; the scan that
\* ends writes its result and its expiry over the entry of its root; and an
\* entry changes in no step but the end of a scan of its root, the start of
\* a call for its root, or clearExportCache
C21_Step ==
    /\ \A p \in DOMAIN calls :
          LET c   == calls[p]
              d   == calls'[p]
              key == <<"exports::", c.packageRoot>>
          IN  /\ MissStep(p) => d.pc = "collect" /\ d.globs = 1 /\ d.reads = 0
              /\ ScanEndStep(p) =>
                    /\ d.globs = 1
                    /\ d.files = Listed(c.packageRoot)
                    /\ d.reads = Len(d.files)
                    /\ d.result = WholeScan(c.packageRoot)
                    /\ key \in DOMAIN exportCache'
                    /\ exportCache'[key] =
                           [expiresAt |-> now + CACHE_TTL_MS, result |-> d.result]
    /\ \A r \in DOMAIN fs :
          LET key == <<"exports::", r>>
          IN  (key \in DOMAIN exportCache
                  /\ (key \notin DOMAIN exportCache' \/ exportCache'[key] # exportCache[key])) =>
                 \/ exportCache' = EmptyMap
                 \/ \E p \in DOMAIN calls :
                       /\ calls'[p].packageRoot = r
                       /\ ScanEndStep(p) \/ BeginStep(p)

(* C21: two calls for one root that both miss the cache both scan the file *)
(* system to the end (no single-flight), and the entry of the root is the  *)
(* result and the expiry written by the one that stored last.              *)
C21_LastWriterWins == [][C21_Step]_vars

\* two callers have both scanned the same root to the end, neither served
\* from the cache and neither after a clear, and the entry of the root was
\* written after the clock had advanced
C21_Witness ==
    \E p, q \in DOMAIN calls :
        LET c   == calls[p]
            d   == calls[q]
            key == <<"exports::", c.packageRoot>>
        IN  /\ p # q
            /\ Scanned(c) /\ Scanned(d)
            /\ c.packageRoot = d.packageRoot
            /\ c.found = "none" /\ d.found = "none"
            /\ c.afterClear = "" /\ d.afterClear = ""
            /\ c.reads = 2 /\ d.reads = 2
            /\ key \in DOMAIN exportCache
            /\ exportCache[key].expiresAt = now + CACHE_TTL_MS
            /\ now > 0

----------------------------------------------------------------------------
\* the first n files of a listing
Prefix(files, n) == SubSeq(files, 1, n)

\* the result of processing a listing file after file, in listing order
InListingOrder(files) ==
    [exports |-> BuildIndex(EmptyMap, files), errors |-> ParseErrors(files)]

(* C22: the index of a scan is a function of the ordered listing and the   *)
(* file contents: while a scan awaits the read of its i-th file it holds   *)
(* what the first i-1 files give in listing order, a finished scan returns *)
(* what the whole listing gives in listing order, and two scans of the     *)
(* same listing return identical exports and identical errors.             *)
C22_ScansAreDeterministic ==
    /\ \A p \in DOMAIN calls :
          LET c == calls[p]
          IN  /\ c.pc = "read" =>
                    /\ c.i \in 1..Len(c.files)
                    /\ c.exports = InListingOrder(Prefix(c.files, c.i - 1)).exports
                    /\ c.errors = InListingOrder(Prefix(c.files, c.i - 1)).errors
              /\ Scanned(c) => c.result = InListingOrder(c.files)
    /\ \A p, q \in DOMAIN calls :
          (Scanned(calls[p]) /\ Scanned(calls[q]) /\ calls[p].files = calls[q].files) =>
              calls[p].result = calls[q].result

\* two callers have each scanned the same listing, in which the second file
\* defines a name the first re-exports, and hold the same index
C22_Witness ==
    \E p, q \in DOMAIN calls :
        LET c == calls[p]
            d == calls[q]
        IN  /\ p # q
            /\ Scanned(c) /\ Scanned(d)
            /\ c.files = d.files /\ Len(c.files) = 2
            /\ c.reads = 2 /\ d.reads = 2
            /\ Yields(c.files, 1, "Button", TRUE)
            /\ Yields(c.files, 2, "Button", FALSE)
            /\ c.result = d.result
            /\ c.result.exports["Button"].filePath = c.files[2]

----------------------------------------------------------------------------
\* what an index holds for a name: "absent", "reexport" or "definition"
Held(exports, name) ==
    IF name \notin DOMAIN exports THEN "absent"
    ELSE IF exports[name].kind = "reexport" THEN "reexport" ELSE "definition"

\* the names of the model's files
AllNames ==
    UNION {{FileExports[f][i].name : i \in 1..Len(FileExports[f])} : f \in DOMAIN FileExports}

\* the index a scan has built so far, and the index after the step
IndexBefore(c) == c.exports

IndexAfter(c, d) == IF d.pc = "done" THEN d.result.exports ELSE d.exports

\* the first record for name in the records of a listing that is not a
\* re-export; Undefined when there is none
FirstDefinition(recs, name) ==
    LET defs == SelectSeq(recs, LAMBDA r : r.name = name /\ r.kind # "reexport")
    IN  IF defs = <<>> THEN Undefined ELSE Head(defs)

\* in a step of a scan that reads a file, what is held for a name stays as
\* it is or moves absent -> reexport, absent -> definition or
\* reexport -> definition, and a held definition is left as it is
C29_Step ==
    \A p \in DOMAIN calls :
        LET c == calls[p]
            d == calls'[p]
        IN  (c.pc = "read" /\ d.pc \in {"read", "done"}) =>
                \A n \in AllNames :
                    LET before == Held(IndexBefore(c), n)
                        after  == Held(IndexAfter(c, d), n)
                    IN  /\ <<before, after>> \in
                              {<<"absent", "absent">>, <<"absent", "reexport">>,
                               <<"absent", "definition">>, <<"reexport", "reexport">>,
                               <<"reexport", "definition">>, <<"definition", "definition">>}
                        /\ before = after => MapGet(IndexAfter(c, d), n) = MapGet(IndexBefore(c), n)

\* a finished scan holds, for every name some file of the listing defines,
\* the first definition in processing order
C29_FirstDefinitionKept ==
    \A p \in DOMAIN calls :
        LET c == calls[p]
        IN  Scanned(c) =>
                \A n \in AllNames :
                    FirstDefinition(ListingRecords(c.files), n) # Undefined =>
                        MapGet(c.result.exports, n) = FirstDefinition(ListingRecords(c.files), n)

(* C29: during a scan the record held for a name only moves absent to      *)
(* reexport, absent to non-reexport or reexport to non-reexport, a held    *)
(* non-reexport record is never replaced and a reexport only by a          *)
(* non-reexport, so the index keeps the first definition in processing     *)
(* order.                                                                  *)
C29_HeldRecordOnlyAdvances == []C29_FirstDefinitionKept /\ [][C29_Step]_vars

\* a finished scan has kept the definition of Button from its first file
\* although a later file defines Button again, and has replaced the
\* re-export of helper by its definition
C29_Witness ==
    \E p \in DOMAIN calls :
        LET c == calls[p]
        IN  /\ Scanned(c) /\ Len(c.files) = 3
            /\ \E i, j \in 1..Len(c.files) :
                  /\ i < j
                  /\ Yields(c.files, i, "Button", FALSE)
                  /\ Yields(c.files, j, "Button", FALSE)
                  /\ c.result.exports["Button"].filePath = c.files[i]
            /\ \E i, j \in 1..Len(c.files) :
                  /\ i < j
                  /\ Yields(c.files, i, "helper", TRUE)
                  /\ Yields(c.files, j, "helper", FALSE)
                  /\ c.result.exports["helper"].filePath = c.files[j]

----------------------------------------------------------------------------
(* C30: in every index a call returns, each key maps to a record whose     *)
(* name is the key and whose filePath is a file the collector listed for   *)
(* the scan that built the index, and is a file that was read: a file      *)
(* whose read failed is the filePath of no record.                         *)
C30_RecordsPointIntoListing ==
    \A p \in DOMAIN calls :
        LET c == calls[p]
        IN  c.pc = "done" =>
                \A k \in DOMAIN c.result.exports :
                    LET rec == c.result.exports[k]
                    IN  /\ rec.name = k
                        /\ rec.filePath \in Range(Listed(c.packageRoot))
                        /\ Scanned(c) => rec.filePath \in Range(c.files)
                        /\ Readable(rec.filePath)
                        /\ \A e \in Range(c.result.errors) : e[2] # rec.filePath

\* a finished scan of three files, one of which could not be read, has
\* returned records of the two others
C30_Witness ==
    \E p \in DOMAIN calls :
        LET c == calls[p]
        IN  /\ Scanned(c) /\ Len(c.files) = 3
            /\ \E f \in Range(c.files) : ~Readable(f)
            /\ Cardinality({c.result.exports[k].filePath : k \in DOMAIN c.result.exports}) = 2

----------------------------------------------------------------------------
(* parseFileExports on its own, exportScanner.ts:123-262: the function is  *)
(* applied to every text of a bounded set of source texts.                 *)

\* most statements at the top level of a text
MaxStatements == 2

\* the declarations of the six kinds, not exported and exported
PlainDeclarations ==
    {DeclNode(k, m, <<"Foo">>) :
        k \in {"VariableStatement", "FunctionDeclaration", "ClassDeclaration",
               "InterfaceDeclaration", "TypeAliasDeclaration", "EnumDeclaration"},
        m \in {{}, {"export"}}}

\* export default function Foo / class Foo / interface Foo, and the
\* anonymous export default function () / class; the grammar has no
\* export default for a variable statement, a type alias or an enum
DefaultDeclarations ==
    {DeclNode(k, {"export", "default"}, <<"Foo">>) :
        k \in {"FunctionDeclaration", "ClassDeclaration", "InterfaceDeclaration"}}
    \cup {DeclNode(k, {"export", "default"}, <<NoName>>) :
        k \in {"FunctionDeclaration", "ClassDeclaration"}}

\* export const { a, b } = o, Bar = 1: a destructuring pattern has no name
PatternDeclaration == DeclNode("VariableStatement", {"export"}, <<NoName, "Bar">>)

\* export default Foo;
ExportAssignment == DeclNode("ExportAssignment", {}, <<>>)

\* export { Foo, Bar } from 'm';  export { Foo as Baz, Bar } from 'm';
\* export * from 'm';  export { Foo };  export { Foo as Baz };
ExportStatements ==
    {ExportNode(TRUE, TRUE, <<"Foo", "Bar">>),
     AliasedExportNode(TRUE, <<"Foo", NoName>>, <<"Baz", "Bar">>),
     ExportNode(TRUE, FALSE, <<>>),
     ExportNode(FALSE, TRUE, <<"Foo">>),
     AliasedExportNode(FALSE, <<"Foo">>, <<"Baz">>)}

\* [export] namespace N { export <declaration of Foo> }: a ModuleDeclaration
\* whose body is a ModuleBlock
Namespaces ==
    {BlockNode("ModuleDeclaration", m, <<BlockNode("ModuleBlock", {}, <<d>>)>>) :
        m \in {{}, {"export"}},
        d \in {n \in PlainDeclarations : "export" \in n.modifiers}}

Statements ==
    PlainDeclarations \cup DefaultDeclarations \cup {PatternDeclaration, ExportAssignment}
        \cup ExportStatements \cup Namespaces

\* the texts parsed: every sequence of at most MaxStatements statements
SourceTexts ==
    {SourceFile(s) : s \in UNION {[1..k -> Statements] : k \in 0..MaxStatements}}

\* the paths the texts are parsed under
ParsedPaths == {"/r1/src/file.ts", "/r1/src/file.tsx"}

\* line 123: parseFileExports(filePath, sourceText) is called and returns
\* the array line 261 returns
ParseFileExports ==
    /\ parse.pc = "idle"
    /\ parse' = [parse EXCEPT !.pc = "done",
                    !.exports = parseFileExports(parse.filePath, parse.sourceFile)]
    /\ UNCHANGED <<clockVars, scannerVars, modulesVars, toolVars, fetchVars, jiraVars>>
    /\ UNCHANGED <<cliVars, sharingVars>>

InitParse ==
    /\ \E f \in ParsedPaths, t \in SourceTexts :
          parse = [pc |-> "idle", filePath |-> f, sourceFile |-> t, exports |-> <<>>]
    /\ now = 0 /\ ticksLeft = 0
    /\ fs = EmptyMap /\ exportCache = EmptyMap /\ calls = EmptyMap
    /\ clearedExp = EmptyMap /\ storedSince = {}
    /\ nodeModules = EmptyMap /\ modulesCache = EmptyMap /\ mcalls = EmptyMap
    /\ tools = EmptyMap
    /\ fetchCache = EmptyMap /\ fcalls = EmptyMap
    /\ jcalls = EmptyMap
    /\ cli = <<>>
    /\ heap = <<>> /\ refCache = <<>> /\ holders = <<>> /\ storedAs = <<>>

NextParse == ParseFileExports

SpecParse == InitParse /\ [][NextParse]_vars

\* the statements at the top level of a text
TopLevel(sourceFile) == sourceFile.children

\* an export statement with a module specifier and a list of named elements
IsNamedReexport(node) ==
    node.kind = "ExportDeclaration" /\ node.moduleSpecifier /\ node.namedExports

\* one 'reexport' record per named element of the re-export statements of a
\* text, under the name after `as`, in source order
ExpectedReexports(filePath, sourceFile) ==
    LET stmts == TopLevel(sourceFile)
    IN  Concat([i \in 1..Len(stmts) |->
            IF IsNamedReexport(stmts[i])
            THEN [j \in 1..Len(stmts[i].elements) |->
                     [name |-> stmts[i].elements[j], filePath |-> filePath,
                      kind |-> "reexport", isDefault |-> FALSE]]
            ELSE <<>>])

C25_DefaultFlagFollowsModifier ==
    parse.pc = "done" =>
        \A s \in Range(TopLevel(parse.sourceFile)) :
            ("export" \in s.modifiers /\ DeclaredKind(s.kind) \in DeclarationKinds) =>
                \A n \in Range(s.names) \ {NoName} :
                    \E r \in Range(parse.exports) :
                        /\ r.name = n
                        /\ r.kind = DeclaredKind(s.kind)
                        /\ r.isDefault = ("default" \in s.modifiers)

\* the records of the statements at the top level of a text
TopLevelRecords(filePath, sourceFile) ==
    LET stmts == TopLevel(sourceFile)
    IN  Concat([i \in 1..Len(stmts) |-> NodeExports(filePath, stmts[i])])

(* C26: parseFileExports returns records for the export declarations at    *)
(* the top level of the file only: an exported declaration inside a        *)
(* namespace or module block gives no record.                              *)
C26_TopLevelOnly ==
    parse.pc = "done" =>
        parse.exports = TopLevelRecords(parse.filePath, parse.sourceFile)

----------------------------------------------------------------------------
\* the step in which caller p's call of getLocalModulesMap rejects
ModulesFailStep(p) == mcalls[p].pc # "failed" /\ mcalls'[p].pc = "failed"

\* a call that rejects leaves the cache as it is, and has not read the
\* modules file when the package is missing; the step before the read only
\* removes the key it missed; and a call for a package whose modules file
\* cannot be read is never served from the cache: it reads the file itself
C28_Step ==
    \A p \in DOMAIN mcalls :
        LET c      == mcalls[p]
            d      == mcalls'[p]
            status == verifyLocalPackage(nodeModules, c.packageName, c.nodeModulesRootPath)
        IN  /\ ModulesFailStep(p) =>
                  /\ modulesCache' = modulesCache
                  /\ d.verifies = 1
                  /\ IF ~status.exists
                     THEN /\ c.pc = "verify" /\ d.jsonReads = 0
                          /\ d.error = PackageNotFound(c.packageName, status)
                     ELSE /\ c.pc = "read" /\ d.jsonReads = 1
                          /\ ~readJsonFile(nodeModules, c.packageRoot).ok
                          /\ d.error = FailedToImport(c.packageName,
                                           readJsonFile(nodeModules, c.packageRoot).error)
            /\ (c.pc = "verify" /\ d.pc = "read") =>
                  modulesCache' = WithoutEntry(modulesCache, d.cacheKey)
            /\ (c.pc = "verify" /\ d.pc # "verify" /\ status.exists
                    /\ ~readJsonFile(nodeModules, status.packageRoot).ok) =>
                  d.pc = "read" /\ d.jsonReads = 1

\* no entry of the cache stands for a failure: every entry holds the map
\* that the modules file of an installed package holds
C28_NoCachedFailure ==
    \A key \in DOMAIN modulesCache :
        \E k \in DOMAIN nodeModules :
            /\ nodeModules[k].status.exists
            /\ key = <<k[1], "::", nodeModules[k].status.packageRoot>>
            /\ nodeModules[k].json.ok
            /\ modulesCache[key].modulesMap = nodeModules[k].json.modulesMap

(* C28: when verifyLocalPackage reports the package missing or reading     *)
(* dynamic-modules.json fails, getLocalModulesMap throws, without reading  *)
(* the modules file in the first case, and creates or replaces no cache    *)
(* entry, so that a later call for the package reads the file again and    *)
(* is not served a cached failure.                                         *)
C28_FailuresAreNotCached == []C28_NoCachedFailure /\ [][C28_Step]_vars

\* a call for the package whose modules file cannot be read has read the
\* file and rejected, a call for a missing package has rejected without a
\* read, and the cache holds the entry of another package
C28_Witness ==
    \E p, q \in DOMAIN mcalls :
        /\ mcalls[p].pc = "failed" /\ mcalls[p].jsonReads = 1
        /\ mcalls[p].packageName = "@patternfly/react-table"
        /\ mcalls[q].pc = "failed" /\ mcalls[q].jsonReads = 0
        /\ mcalls[q].packageName = "not-installed"
        /\ modulesCache # EmptyMap

----------------------------------------------------------------------------
(* The command line entry point of hcc-jira-mcp, index.ts:11-74, with      *)
(* hasCredentials (credentialStore.ts:102-109) and runSetup                *)
(* (setupPrompts.ts:5-94).                                                 *)

\* process.env.X of a variable that is not in the environment
Unset == "undefined"

\* the values of JIRA_BASE_URL and of JIRA_API_TOKEN: not set, set to the
\* empty string, set to a value
EnvValues == {Unset, "", "value"}

\* the truthiness of process.env.X: undefined and '' are falsy
Truthy(v) == v \notin {Unset, ""}

\* hasEnvVars with || in place of &&
hasEnvVarsEither(env) == Truthy(env.JIRA_BASE_URL) \/ Truthy(env.JIRA_API_TOKEN)

\* index.ts:15-16
hasEnvVars(env) == Truthy(env.JIRA_BASE_URL) /\ Truthy(env.JIRA_API_TOKEN)

\* what the credential store holds: both the config file and the keychain
\* token, nothing, or a config file with a keychain that cannot be read
CredentialStores == {"stored", "none", "keychain-error"}

\* credentialStore.ts:102-109: getCredentials gave credentials; null and a
\* thrown error both give false
hasCredentials(store) == store = "stored"

\* index.ts:24
isInteractive(c) == c.stdinTTY /\ c.stdoutTTY

\* process.exit(code): the process is gone, nothing after it runs; exitCode
\* is empty while the process lives and holds the code once it has exited
Exit(c, code) == [c EXCEPT !.pc = "exited", !.exitCode = <<code>>]

\* line 68: run() is called and awaited
InvokeRun(c) == [c EXCEPT !.pc = "run", !.runs = c.runs + 1]

\* index.ts:12-19: the program starts, reads the environment and awaits
\* hasCredentials()
CliStart ==
    /\ cli.pc = "start"
    /\ cli' = [cli EXCEPT !.pc = "hasCredentials", !.hasEnvVars = hasEnvVars(cli.env)]
    /\ UNCHANGED <<clockVars, scannerVars, modulesVars, toolVars, fetchVars, jiraVars>>
    /\ UNCHANGED <<parserVars, sharingVars>>

\* index.ts:19-68: hasCredentials() settles; with credentials or with the
\* environment variables run() is called; else an interactive terminal
\* starts runSetup(true), which prompts, and any other terminal exits with 1
CliCredentialsChecked ==
    /\ cli.pc = "hasCredentials"
    /\ LET configured == hasCredentials(cli.store)
           c          == [cli EXCEPT !.configured = configured]
       IN  cli' = IF ~configured /\ ~c.hasEnvVars
                  THEN (IF isInteractive(c)
                        THEN [c EXCEPT !.pc = "prompts", !.setups = c.setups + 1]
                        ELSE Exit(c, 1))
                  ELSE InvokeRun(c)
    /\ UNCHANGED <<clockVars, scannerVars, modulesVars, toolVars, fetchVars, jiraVars>>
    /\ UNCHANGED <<parserVars, sharingVars>>

\* setupPrompts.ts:38-68: the prompts settle; both answers given lead to
\* storeCredentials, a missing answer (the user cancelled) makes runSetup
\* return false (index.ts:37-40: exit 1), a rejection is caught at
\* index.ts:69-72 (exit 1)
CliPromptsAnswered(answers) ==
    /\ cli.pc = "prompts"
    /\ cli' = CASE answers = "given"     -> [cli EXCEPT !.pc = "store"]
                [] answers = "cancelled" -> Exit([cli EXCEPT !.success = "false"], 1)
                [] OTHER                 -> Exit([cli EXCEPT !.success = "threw"], 1)
    /\ UNCHANGED <<clockVars, scannerVars, modulesVars, toolVars, fetchVars, jiraVars>>
    /\ UNCHANGED <<parserVars, sharingVars>>

\* setupPrompts.ts:70-93: storeCredentials settles; runSetup returns true and
\* run() is called (index.ts:43, 68), or it returns false (exit 1)
CliCredentialsStored(ok) ==
    /\ cli.pc = "store"
    /\ cli' = IF ok
              THEN InvokeRun([cli EXCEPT !.success = "true", !.store = "stored"])
              ELSE Exit([cli EXCEPT !.success = "false"], 1)
    /\ UNCHANGED <<clockVars, scannerVars, modulesVars, toolVars, fetchVars, jiraVars>>
    /\ UNCHANGED <<parserVars, sharingVars>>

\* index.ts:68-72: run() settles; the server is connected, or the rejection
\* is caught and the process exits with 1
CliRunSettled(ok) ==
    /\ cli.pc = "run"
    /\ cli' = IF ok THEN [cli EXCEPT !.pc = "serving"] ELSE Exit(cli, 1)
    /\ UNCHANGED <<clockVars, scannerVars, modulesVars, toolVars, fetchVars, jiraVars>>
    /\ UNCHANGED <<parserVars, sharingVars>>

\* the program as it is started: any environment, any credential store, any
\* terminal
InitCli ==
    /\ \E b, t \in EnvValues, s \in CredentialStores, i, o \in BOOLEAN :
          cli = [pc |-> "start",
                 env |-> [JIRA_BASE_URL |-> b, JIRA_API_TOKEN |-> t],
                 store |-> s, stdinTTY |-> i, stdoutTTY |-> o,
                 hasEnvVars |-> FALSE, configured |-> FALSE, success |-> "",
                 setups |-> 0, runs |-> 0, exitCode |-> <<>>]
    /\ now = 0 /\ ticksLeft = 0
    /\ fs = EmptyMap /\ exportCache = EmptyMap /\ calls = EmptyMap
    /\ clearedExp = EmptyMap /\ storedSince = {}
    /\ nodeModules = EmptyMap /\ modulesCache = EmptyMap /\ mcalls = EmptyMap
    /\ tools = EmptyMap
    /\ fetchCache = EmptyMap /\ fcalls = EmptyMap
    /\ jcalls = EmptyMap
    /\ parse = <<>>
    /\ heap = <<>> /\ refCache = <<>> /\ holders = <<>> /\ storedAs = <<>>

NextCli ==
    \/ CliStart
    \/ CliCredentialsChecked
    \/ \E a \in {"given", "cancelled", "rejected"} : CliPromptsAnswered(a)
    \/ \E ok \in BOOLEAN : CliCredentialsStored(ok)
    \/ \E ok \in BOOLEAN : CliRunSettled(ok)

SpecCli == InitCli /\ [][NextCli]_vars

\* the three grounds on which the server may be started
StoredCredentialsExist == cli.configured

BothVariablesSet ==
    /\ cli.env.JIRA_BASE_URL \notin {Unset, ""}
    /\ cli.env.JIRA_API_TOKEN \notin {Unset, ""}

SetupSucceeded ==
    cli.stdinTTY /\ cli.stdoutTTY /\ cli.setups = 1 /\ cli.success = "true"

\* the credential check is over
Decided == cli.pc \notin {"start", "hasCredentials"}

(* C27: run() is invoked only if stored credentials exist, or both         *)
(* JIRA_BASE_URL and JIRA_API_TOKEN are set, or the terminal is            *)
(* interactive and runSetup(true) returned true; in every other case the   *)
(* process exits with code 1 and run() is never invoked.                   *)
C27_ServerStartsOnlyWhenConfigured ==
    /\ cli.runs \in {0, 1}
    /\ cli.runs = 1 =>
          StoredCredentialsExist \/ BothVariablesSet \/ SetupSucceeded
    /\ cli.pc \in {"run", "serving"} => cli.runs = 1
    /\ (Decided /\ ~StoredCredentialsExist /\ ~BothVariablesSet) =>
          /\ ~(cli.stdinTTY /\ cli.stdoutTTY) =>
                cli.pc = "exited" /\ cli.exitCode = <<1>> /\ cli.runs = 0 /\ cli.setups = 0
          /\ cli.success \in {"false", "threw"} =>
                cli.pc = "exited" /\ cli.exitCode = <<1>> /\ cli.runs = 0
    /\ cli.pc = "exited" => cli.exitCode = <<1>>

\* with no credentials and only JIRA_BASE_URL set, in an interactive
\* terminal, the setup has succeeded and the server is running
C27_Witness ==
    /\ cli.pc = "serving" /\ cli.runs = 1
    /\ ~cli.configured
    /\ cli.env.JIRA_BASE_URL = "value" /\ cli.env.JIRA_API_TOKEN = Unset
    /\ SetupSucceeded

----------------------------------------------------------------------------
(* The scan results as objects.  scanPackageExports builds one             *)
(* { exports, errors } object per scan; setCache stores the object and     *)
(* both the scan and every cache hit return it (exportScanner.ts:69, 80-   *)
(* 83, 271, 301-303).  A variable holds a reference into heap, and a       *)
(* caller may change the object it was handed.                             *)

\* most result objects built in a behaviour
MaxObjects == 2

\* no object
NullRef == 0

\* lines 281-296 over a whole listing: the files one after another
RECURSIVE ProcessFiles(_, _, _)
ProcessFiles(exports, errors, files) ==
    IF files = <<>> THEN ExportScanResult(exports, errors)
    ELSE CHOOSE r \in
             {ProcessFiles(step.exports, step.errors, Tail(files)) :
                 step \in {ProcessFile(exports, errors, Head(files))}} : TRUE

\* getFromCache (lines 65-73) on the cache of references
getFromRefCache(cache, packageRoot, t) ==
    LET cacheKey == createCacheKey(packageRoot)
    IN  IF cacheKey \in DOMAIN cache /\ isCacheValid(cache[cacheKey], t)
        THEN [hit |-> TRUE, result |-> cache[cacheKey].result, cache |-> cache]
        ELSE [hit |-> FALSE, result |-> NullRef, cache |-> MapDelete(cache, cacheKey)]

\* a caller: idle, with a scan in flight ("scanning"), or holding the object
\* scanPackageExports returned ("done"); seen is the value the object had
\* when it was returned
IdleHolder ==
    [pc |-> "idle", packageRoot |-> "", result |-> NullRef, hit |-> FALSE,
     seen |-> NoResult]

\* lines 267-276: the call starts; a valid entry returns the cached object
SharedScanBegin(p, packageRoot) ==
    /\ holders[p].pc = "idle"
    /\ LET got == getFromRefCache(refCache, packageRoot, now)
       IN  /\ refCache' = got.cache
           /\ holders' = [holders EXCEPT ![p] =
                  IF got.hit
                  THEN [pc |-> "done", packageRoot |-> packageRoot,
                        result |-> got.result, hit |-> TRUE, seen |-> heap[got.result]]
                  ELSE [IdleHolder EXCEPT !.pc = "scanning", !.packageRoot = packageRoot]]
    /\ UNCHANGED <<heap, storedAs>>
    /\ UNCHANGED <<clockVars, scannerVars, modulesVars, toolVars, fetchVars, jiraVars>>
    /\ UNCHANGED <<parserVars, cliVars>>

\* lines 279-303: the scan runs to its end, builds the result object, stores
\* it in the cache and returns it
SharedScanEnd(p) ==
    LET c         == holders[p]
        collected == collectSourceFiles(fs, SrcDir(c.packageRoot))
        result    == ProcessFiles(EmptyMap, <<>>, collected.files)
        ref       == Len(heap) + 1
    IN  /\ c.pc = "scanning"
        /\ Len(heap) < MaxObjects
        /\ heap' = Append(heap, result)
        /\ storedAs' = Append(storedAs, result)
        /\ refCache' = MapSet(refCache, createCacheKey(c.packageRoot),
                              [expiresAt |-> now + CACHE_TTL_MS, result |-> ref])
        /\ holders' = [holders EXCEPT ![p] =
               [c EXCEPT !.pc = "done", !.result = ref, !.seen = result]]
        /\ UNCHANGED <<clockVars, scannerVars, modulesVars, toolVars, fetchVars, jiraVars>>
        /\ UNCHANGED <<parserVars, cliVars>>

\* what a caller may do to the index it holds: exports.delete(name),
\* exports.set(name, record), errors.push(message)
Mutations == {"delete", "set", "push"}

Mutated(result, mutation) ==
    CASE mutation = "delete" ->
           [result EXCEPT !.exports = MapDelete(result.exports, "Button")]
      [] mutation = "set" ->
           [result EXCEPT !.exports =
               MapSet(result.exports, "Injected",
                      ExportInfo("Injected", "/elsewhere.ts", "variable", FALSE))]
      [] OTHER ->
           [result EXCEPT !.errors = Append(result.errors, <<"pushed by a caller">>)]

\* a caller changes the object it holds, once in each way at most
CallerMutates(p, mutation) ==
    LET c == holders[p]
    IN  /\ c.pc = "done"
        /\ Mutated(heap[c.result], mutation) # heap[c.result]
        /\ mutation = "push" => heap[c.result].errors = storedAs[c.result].errors
        /\ heap' = [heap EXCEPT ![c.result] = Mutated(heap[c.result], mutation)]
        /\ UNCHANGED <<refCache, holders, storedAs>>
        /\ UNCHANGED <<clockVars, scannerVars, modulesVars, toolVars, fetchVars, jiraVars>>
        /\ UNCHANGED <<parserVars, cliVars>>

\* the caller lets go of the object
SharedReturn(p) ==
    /\ holders[p].pc = "done"
    /\ holders' = [holders EXCEPT ![p] = IdleHolder]
    /\ UNCHANGED <<heap, refCache, storedAs>>
    /\ UNCHANGED <<clockVars, scannerVars, modulesVars, toolVars, fetchVars, jiraVars>>
    /\ UNCHANGED <<parserVars, cliVars>>

\* every caller, both roots, a clock that stands
InitSharing ==
    /\ heap = <<>> /\ storedAs = <<>>
    /\ refCache = EmptyMap
    /\ holders = [p \in Procs |-> IdleHolder]
    /\ now = 0 /\ ticksLeft = 0
    /\ fs = BothRoots
    /\ exportCache = EmptyMap /\ calls = EmptyMap
    /\ clearedExp = EmptyMap /\ storedSince = {}
    /\ nodeModules = EmptyMap /\ modulesCache = EmptyMap /\ mcalls = EmptyMap
    /\ tools = EmptyMap
    /\ fetchCache = EmptyMap /\ fcalls = EmptyMap
    /\ jcalls = EmptyMap
    /\ parse = <<>>
    /\ cli = <<>>

NextSharing ==
    \/ \E p \in Procs, r \in Roots : SharedScanBegin(p, r)
    \/ \E p \in Procs : SharedScanEnd(p)
    \/ \E p \in Procs, m \in Mutations : CallerMutates(p, m)
    \/ \E p \in Procs : SharedReturn(p)

SpecSharing == InitSharing /\ [][NextSharing]_vars

(* C23: the index a call is served from the cache equals the index as it   *)
(* was when the scan stored it: what a caller did to an index returned     *)
(* earlier (keys of exports added or deleted, errors appended) does not    *)
(* show in it.                                                             *)
C23_CacheHitsAreSnapshots ==
    \A p \in DOMAIN holders :
        LET c == holders[p]
        IN  (c.pc = "done" /\ c.hit) => c.seen = storedAs[c.result]

====
